---------------------------- MODULE Spec2Model ----------------------------
(***************************************************************************)
(* Model of the K*(892) -> K0s gamma task                                  *)
(* (PWGLF/Tasks/Resonances/kstarToK0Gamma.cxx): per-candidate selection    *)
(* (isV0Selected, analyseV0Candidate), the pair builder (buildV0V0Pairs,   *)
(* checkTrackIndices, analyseV0PairCandidate) and the per-collision        *)
(* handler processRealData.                                                *)
(*                                                                         *)
(* Numbers.  Floating-point columns and thresholds are integers in a fixed *)
(* unit per quantity, so that every default of the source is exact:        *)
(*   masses (mK0Short, mLambda, mGamma, windows)      1e-6 GeV/c^2         *)
(*   lengths, eta, cosPA, n-sigma, qt, alpha, scores  1e-3                 *)
(*   armPodCut                                         1e-5                *)
(*   TOF delta-t, distovertotmom                       1                   *)
(*   lifetimeCut                                       1e-6 cm             *)
(* NaN is the one extra value of a float; every ordered comparison with it *)
(* is false.  Rounding of float arithmetic is not modelled.                *)
(***************************************************************************)
EXTENDS Integers, Sequences, FiniteSets, TLC

\* ------------------------------------------------------------------------
\* Bounds of the model
\* ------------------------------------------------------------------------
\* largest number of V0 candidates of a collision in the pairing scenarios
MaxV0s == 3
\* largest number of V0 candidates of a collision in the selection scenarios
MaxSelV0s == 1

\* ------------------------------------------------------------------------
\* float helpers
\* ------------------------------------------------------------------------
NaN == -2000000000

\* a > b on floats
FGt(a, b) == a # NaN /\ b # NaN /\ a > b
\* a < b on floats
FLt(a, b) == a # NaN /\ b # NaN /\ a < b
\* a >= b on floats
FGe(a, b) == a # NaN /\ b # NaN /\ a >= b
\* std::fabs / std::abs
FAbs(a) == IF a = NaN THEN NaN ELSE IF a < 0 THEN 0 - a ELSE a
\* a - b on floats
FSub(a, b) == IF a = NaN \/ b = NaN THEN NaN ELSE a - b
\* a * b on floats
FMul(a, b) == IF a = NaN \/ b = NaN THEN NaN ELSE a * b
\* a + b on floats
FAdd(a, b) == IF a = NaN \/ b = NaN THEN NaN ELSE a + b

\* ------------------------------------------------------------------------
\* physics constants (o2::constants::physics), 1e-6 GeV/c^2
\* ------------------------------------------------------------------------
MassK0Short == 497611
MassLambda0 == 1115683
\* o2::aod::track::TPC bit of detectorMap
DetTPC == 2
\* literal 1e-4 of the Armenteros guard, in units of armPodCut (1e-5)
ArmPodEps == 10
\* alpha and qt are 1e-3, armPodCut 1e-5: factor bringing |alpha| to qt*k
ArmPodScale == 100000

\* ------------------------------------------------------------------------
\* Configurables: defaults of the source
\* ------------------------------------------------------------------------
DefaultEventSelections ==
  [ requireSel8 |-> TRUE, requireTriggerTVX |-> TRUE,
    rejectITSROFBorder |-> TRUE, rejectTFBorder |-> TRUE,
    requireIsVertexITSTPC |-> FALSE, requireIsGoodZvtxFT0VsPV |-> TRUE,
    requireIsVertexTOFmatched |-> FALSE, requireIsVertexTRDmatched |-> FALSE,
    rejectSameBunchPileup |-> TRUE, requireNoCollInTimeRangeStd |-> FALSE,
    requireNoCollInTimeRangeStrict |-> FALSE,
    requireNoCollInTimeRangeNarrow |-> FALSE,
    requireNoCollInTimeRangeVzDep |-> FALSE, requireNoCollInROFStd |-> FALSE,
    requireNoCollInROFStrict |-> FALSE, requireINEL0 |-> TRUE,
    requireINEL1 |-> FALSE, maxZVtxPosition |-> 10000,
    useFT0CbasedOccupancy |-> FALSE, minOccupancy |-> -1000,
    maxOccupancy |-> -1000 ]

DefaultV0Selections ==
  [ v0TypeSelection |-> 1, daughterEtaCut |-> 800, v0cospa |-> 970,
    dcav0dau |-> 1000, dcav0topv |-> 50, dcapostopv |-> 50,
    dcanegtopv |-> 50, v0radius |-> 1200, v0radiusMax |-> 100000000,
    lifetimeCut |-> 20000000, v0MassWindow |-> 8000,
    compMassRejection |-> 8000, armPodCut |-> 500000, minTPCrows |-> 70,
    minITSclusters |-> -1, skipTPConly |-> FALSE,
    requirePosITSonly |-> FALSE, requireNegITSonly |-> FALSE,
    rejectPosITSafterburner |-> FALSE, rejectNegITSafterburner |-> FALSE,
    tpcPidNsigmaCut |-> 5000, tofPidNsigmaCutK0Pi |-> 1000000000,
    maxDeltaTimePion |-> 1000000000 ]

DefaultPhotonSelections ==
  [ v0TypeSelection |-> 1, daughterEtaCut |-> 800, photonZMax |-> 240000,
    v0cospa |-> 970, dcav0dau |-> 1000, dcav0topv |-> 50,
    dcanegtopv |-> 50, dcapostopv |-> 50, v0radius |-> 1200,
    v0radiusMax |-> 100000000, photonMassMax |-> 8000,
    armPodCut |-> 500000, minTPCrows |-> 70, minITSclusters |-> -1,
    skipTPConly |-> FALSE, requirePosITSonly |-> FALSE,
    requireNegITSonly |-> FALSE, rejectPosITSafterburner |-> FALSE,
    rejectNegITSafterburner |-> FALSE, tpcPidNsigmaCut |-> 5000 ]

DefaultMlConfigurations ==
  [ useK0ShortScores |-> FALSE, useLambdaScores |-> FALSE,
    useAntiLambdaScores |-> FALSE, useGammaScores |-> FALSE,
    calculateK0ShortScores |-> FALSE, calculateLambdaScores |-> FALSE,
    calculateAntiLambdaScores |-> FALSE, calculateGammaScores |-> FALSE,
    loadCustomModelsFromCCDB |-> FALSE, thresholdK0Short |-> -1000,
    thresholdGamma |-> -1000 ]

DefaultConfig ==
  [ doPPAnalysis |-> TRUE, doMCAssociation |-> TRUE,
    cfgSkimmedProcessing |-> FALSE, rapidityCut |-> 500,
    eventSelections |-> DefaultEventSelections,
    v0Selections |-> DefaultV0Selections,
    photonSelections |-> DefaultPhotonSelections,
    mlConfigurations |-> DefaultMlConfigurations ]

\* ------------------------------------------------------------------------
\* V0 candidates (V0Candidates row with its two DauTracks rows)
\* ------------------------------------------------------------------------
\* a daughter track that passes the quality and PID cuts of both categories
BaseTrackExtra ==
  [ itsChi2PerNcl |-> 1000, itsNCls |-> 5, tpcCrossedRows |-> 100,
    tpcNSigmaEl |-> 0, tpcNSigmaPi |-> 0, detectorMap |-> 3 ]

\* a candidate that passes the default cuts of both categories
BaseV0 ==
  [ globalIndex |-> 0, posTrackExtraId |-> 1, negTrackExtraId |-> 2,
    z |-> 10000, negativeeta |-> 100, positiveeta |-> -100, v0Type |-> 1,
    v0radius |-> 5000, dcapostopv |-> 100, dcanegtopv |-> 20,
    v0cosPA |-> 990, dcaV0daughters |-> 500, dcav0topv |-> 100,
    mGamma |-> 2000, mK0Short |-> 497611, mLambda |-> 1200000,
    posTrackExtra |-> BaseTrackExtra, negTrackExtra |-> BaseTrackExtra,
    posTOFDeltaTK0Pi |-> 0, negTOFDeltaTK0Pi |-> 0,
    tofNSigmaK0PiPlus |-> 0, tofNSigmaK0PiMinus |-> 0,
    distovertotmom |-> 10, qtarm |-> 200, alpha |-> 100,
    k0ShortBDTScore |-> 800, antiLambdaBDTScore |-> 800,
    lambdaBDTScore |-> 800, pt |-> 1000, pz |-> 100 ]

\* ------------------------------------------------------------------------
\* isV0Selected: the cuts of each category, in the order of the source.
\* Each entry is the condition under which the source returns false.
\* ------------------------------------------------------------------------
\* variant: the minimum itself is rejected
photonCosPARejectAtMinimum(v0, ps) ==
  v0.v0cosPA # NaN /\ ps.v0cospa # NaN /\ v0.v0cosPA <= ps.v0cospa

\* V0 cosine of pointing angle, photon branch
photonCosPAReject(v0, ps) == FLt(v0.v0cosPA, ps.v0cospa)

\* V0 cosine of pointing angle, K0-short branch
k0ShortCosPAReject(v0, vs) == FLt(v0.v0cosPA, vs.v0cospa)

\* variant: the edge of the window is rejected
k0ShortMassWindowRejectAtEdge(v0, vs) ==
  FGe(FAbs(FSub(v0.mK0Short, MassK0Short)), vs.v0MassWindow)

\* invariant mass window of the K0-short branch
k0ShortMassWindowReject(v0, vs) ==
  FGt(FAbs(FSub(v0.mK0Short, MassK0Short)), vs.v0MassWindow)

\* variant: no competing mass rejection
k0ShortCompetingMassRejectNever(v0, vs) == FALSE

\* competing mass rejection of the K0-short branch
k0ShortCompetingMassReject(v0, vs) ==
  FLt(FAbs(FSub(v0.mLambda, MassLambda0)), vs.compMassRejection)

\* position of the pointing-angle cut in photonRejects
PhotonCosPACut == 8
\* position of the pointing-angle cut in k0ShortRejects
K0ShortCosPACut == 7
\* position of the invariant mass window in k0ShortRejects
K0ShortMassWindowCut == 10
\* position of the negative-daughter DCA cut in photonRejects
PhotonDcaNegCut == 7
\* position of the negative-daughter DCA cut in k0ShortRejects
K0ShortDcaNegCut == 6
\* position of the competing mass rejection in k0ShortRejects
K0ShortCompetingMassCut == 11
\* position of the Armenteros cut in photonRejects
PhotonArmPodCut == 24
\* position of the Armenteros cut in k0ShortRejects
K0ShortArmPodCut == 29

\* photon branch (isPhoton == true)
photonRejects(v0, cfg) ==
  LET ps  == cfg.photonSelections
      pos == v0.posTrackExtra
      neg == v0.negTrackExtra
      posIsFromAfterburner == FLt(pos.itsChi2PerNcl, 0)
      negIsFromAfterburner == FLt(neg.itsChi2PerNcl, 0)
  IN << FGt(v0.z, ps.photonZMax),
        FGt(FAbs(v0.negativeeta), ps.daughterEtaCut)
          \/ FGt(FAbs(v0.positiveeta), ps.daughterEtaCut),
        ps.v0TypeSelection > -1 /\ v0.v0Type # ps.v0TypeSelection,
        FLt(v0.v0radius, ps.v0radius),
        FGt(v0.v0radius, ps.v0radiusMax),
        FLt(FAbs(v0.dcapostopv), ps.dcapostopv),
        FGt(FAbs(v0.dcanegtopv), ps.dcanegtopv),
        photonCosPAReject(v0, ps),
        FGt(v0.dcaV0daughters, ps.dcav0dau),
        FLt(v0.dcav0topv, ps.dcav0topv),
        FGt(v0.mGamma, ps.photonMassMax),
        pos.itsNCls < ps.minITSclusters,
        neg.itsNCls < ps.minITSclusters,
        ps.rejectPosITSafterburner /\ posIsFromAfterburner,
        ps.rejectNegITSafterburner /\ negIsFromAfterburner,
        pos.tpcCrossedRows < ps.minTPCrows,
        neg.tpcCrossedRows < ps.minTPCrows,
        FGt(FAbs(pos.tpcNSigmaEl), ps.tpcPidNsigmaCut),
        FGt(FAbs(neg.tpcNSigmaEl), ps.tpcPidNsigmaCut),
        ps.requirePosITSonly /\ pos.tpcCrossedRows > 0,
        ps.requireNegITSonly /\ neg.tpcCrossedRows > 0,
        ps.skipTPConly /\ pos.detectorMap = DetTPC,
        ps.skipTPConly /\ neg.detectorMap = DetTPC,
        FGt(ps.armPodCut, ArmPodEps)
          /\ FLt(FMul(v0.qtarm, ps.armPodCut),
                 FMul(FAbs(v0.alpha), ArmPodScale)) >>

\* K0-short branch (isPhoton == false)
k0ShortRejects(v0, collision, cfg) ==
  LET vs  == cfg.v0Selections
      ps  == cfg.photonSelections
      pos == v0.posTrackExtra
      neg == v0.negTrackExtra
      posIsFromAfterburner == FLt(pos.itsChi2PerNcl, 0)
      negIsFromAfterburner == FLt(neg.itsChi2PerNcl, 0)
  IN << FGt(FAbs(v0.negativeeta), ps.daughterEtaCut)
          \/ FGt(FAbs(v0.positiveeta), ps.daughterEtaCut),
        ps.v0TypeSelection > -1 /\ v0.v0Type # ps.v0TypeSelection,
        FLt(v0.v0radius, vs.v0radius),
        FGt(v0.v0radius, vs.v0radiusMax),
        FLt(FAbs(v0.dcapostopv), vs.dcapostopv),
        FGt(FAbs(v0.dcanegtopv), vs.dcanegtopv),
        k0ShortCosPAReject(v0, vs),
        FGt(v0.dcaV0daughters, vs.dcav0dau),
        FLt(v0.dcav0topv, vs.dcav0topv),
        k0ShortMassWindowReject(v0, vs),
        k0ShortCompetingMassReject(v0, vs),
        pos.itsNCls < vs.minITSclusters,
        neg.itsNCls < vs.minITSclusters,
        vs.rejectPosITSafterburner /\ posIsFromAfterburner,
        vs.rejectNegITSafterburner /\ negIsFromAfterburner,
        pos.tpcCrossedRows < vs.minTPCrows,
        neg.tpcCrossedRows < vs.minTPCrows,
        FGt(FAbs(pos.tpcNSigmaPi), vs.tpcPidNsigmaCut),
        FGt(FAbs(neg.tpcNSigmaPi), vs.tpcPidNsigmaCut),
        FGt(FAbs(v0.posTOFDeltaTK0Pi), vs.maxDeltaTimePion),
        FGt(FAbs(v0.negTOFDeltaTK0Pi), vs.maxDeltaTimePion),
        FGt(FAbs(v0.tofNSigmaK0PiPlus), vs.tofPidNsigmaCutK0Pi),
        FGt(FAbs(v0.tofNSigmaK0PiMinus), vs.tofPidNsigmaCutK0Pi),
        vs.requirePosITSonly /\ pos.tpcCrossedRows > 0,
        vs.requireNegITSonly /\ neg.tpcCrossedRows > 0,
        vs.skipTPConly /\ pos.detectorMap = DetTPC,
        vs.skipTPConly /\ neg.detectorMap = DetTPC,
        FGt(FMul(v0.distovertotmom, MassK0Short), vs.lifetimeCut),
        FGt(vs.armPodCut, ArmPodEps)
          /\ FLt(FMul(v0.qtarm, vs.armPodCut),
                 FMul(FAbs(v0.alpha), ArmPodScale)) >>

\* variant: the last cut of the list is not tested
RECURSIVE firstRejectButLast(_, _)
firstRejectButLast(rejects, i) ==
  IF i > Len(rejects) - 1 THEN 0
  ELSE IF rejects[i] THEN i
  ELSE firstRejectButLast(rejects, i + 1)

\* index of the first cut that returns false, 0 when none does
RECURSIVE firstReject(_, _)
firstReject(rejects, i) ==
  IF i > Len(rejects) THEN 0
  ELSE IF rejects[i] THEN i
  ELSE firstReject(rejects, i + 1)

\* isV0Selected on the tables of processRealData: the MC-association block
\* is not compiled (V0Candidates has no v0MCCore_as)
isV0Selected(v0, collision, isPhoton, cfg) ==
  IF isPhoton
    THEN firstReject(photonRejects(v0, cfg), 1) = 0
    ELSE firstReject(k0ShortRejects(v0, collision, cfg), 1) = 0

\* ------------------------------------------------------------------------
\* analyseV0Candidate: the two bits computed for one candidate.
\* k0shortProbability / gammaProbability: element [1] of what evalModel
\* returns for this candidate (only read when the score is calculated).
\* ------------------------------------------------------------------------
\* variant: the threshold itself passes
passK0ShortSelectionsAtThreshold(v0, collision, k0shortProbability, cfg) ==
  LET ml == cfg.mlConfigurations
      k0shortScore == IF ml.calculateK0ShortScores
                        THEN k0shortProbability
                        ELSE v0.k0ShortBDTScore
  IN IF ml.useK0ShortScores
       THEN FGe(k0shortScore, ml.thresholdK0Short)
       ELSE isV0Selected(v0, collision, FALSE, cfg)

passK0ShortSelections(v0, collision, k0shortProbability, cfg) ==
  LET ml == cfg.mlConfigurations
      k0shortScore == IF ml.calculateK0ShortScores
                        THEN k0shortProbability
                        ELSE v0.k0ShortBDTScore
  IN IF ml.useK0ShortScores
       THEN FGt(k0shortScore, ml.thresholdK0Short)
       ELSE isV0Selected(v0, collision, FALSE, cfg)

\* variant: the score is used as soon as it is calculated
passGammaSelectionsWhenCalculated(v0, collision, gammaProbability, cfg) ==
  LET ml == cfg.mlConfigurations
      gammaScore == IF ml.calculateGammaScores
                      THEN gammaProbability
                      ELSE v0.antiLambdaBDTScore
  IN IF ml.useGammaScores \/ ml.calculateGammaScores
       THEN FGt(gammaScore, ml.thresholdGamma)
       ELSE isV0Selected(v0, collision, TRUE, cfg)

passGammaSelections(v0, collision, gammaProbability, cfg) ==
  LET ml == cfg.mlConfigurations
      gammaScore == IF ml.calculateGammaScores
                      THEN gammaProbability
                      ELSE v0.antiLambdaBDTScore
  IN IF ml.useGammaScores
       THEN FGt(gammaScore, ml.thresholdGamma)
       ELSE isV0Selected(v0, collision, TRUE, cfg)

\* variant: the offset of the table is subtracted twice
localIndexOffsetTwice(v0, v0TableOffset) ==
  (v0.globalIndex - 2 * v0TableOffset) + 1

\* variant: the position in the masks is the global index
localIndexGlobal(v0, v0TableOffset) == v0.globalIndex + 1

\* position in the masks of a candidate: v0.globalIndex() - v0TableOffset
\* (std::vector is 0-based, sequences are 1-based)
localIndex(v0, v0TableOffset) == (v0.globalIndex - v0TableOffset) + 1

\* variant: the K0-short selection is evaluated a second time
candidateCallsK0ShortTwice(v0, cfg) ==
  << <<"isV0Selected", "K0Short", v0.globalIndex>>,
     <<"isV0Selected", "Gamma", v0.globalIndex>>,
     <<"isV0Selected", "K0Short", v0.globalIndex>> >>

\* the calls analyseV0Candidate makes for one candidate, in order
candidateCalls(v0, cfg) ==
  LET ml == cfg.mlConfigurations
  IN (IF ml.useK0ShortScores
        THEN IF ml.calculateK0ShortScores
               THEN << <<"evalModel", "K0Short", v0.globalIndex>> >>
               ELSE << >>
        ELSE << <<"isV0Selected", "K0Short", v0.globalIndex>> >>)
     \o
     (IF ml.useGammaScores
        THEN IF ml.calculateGammaScores
               THEN << <<"evalModel", "Gamma", v0.globalIndex>> >>
               ELSE << >>
        ELSE << <<"isV0Selected", "Gamma", v0.globalIndex>> >>)

\* ------------------------------------------------------------------------
\* pair building
\* ------------------------------------------------------------------------
\* variant: the comparison of the two negative daughters is missing
checkTrackIndicesNoNegNeg(k0short, gamma) ==
  IF k0short.posTrackExtraId = gamma.posTrackExtraId
     \/ k0short.posTrackExtraId = gamma.negTrackExtraId
    THEN FALSE
  ELSE IF k0short.negTrackExtraId = gamma.posTrackExtraId
    THEN FALSE
  ELSE TRUE

checkTrackIndices(k0short, gamma) ==
  IF k0short.posTrackExtraId = gamma.posTrackExtraId
     \/ k0short.posTrackExtraId = gamma.negTrackExtraId
    THEN FALSE
  ELSE IF k0short.negTrackExtraId = gamma.posTrackExtraId
     \/ k0short.negTrackExtraId = gamma.negTrackExtraId
    THEN FALSE
  ELSE TRUE

\* variant: the 2nd loop does not test the gamma mask
RECURSIVE gammaLoopNoMask(_, _, _, _, _)
gammaLoopNoMask(fullV0s, offset, selGammaIndices, k0short, j) ==
  IF j > Len(fullV0s) THEN << >>
  ELSE LET gamma == fullV0s[j]
           rest  == gammaLoopNoMask(fullV0s, offset, selGammaIndices, k0short, j + 1)
       IN IF k0short.globalIndex = gamma.globalIndex THEN rest
          ELSE IF ~checkTrackIndices(k0short, gamma) THEN rest
          ELSE << <<k0short.globalIndex, gamma.globalIndex>> >> \o rest

\* variant: the 2nd loop ends at the first pair it hands over
RECURSIVE gammaLoopFirstPairOnly(_, _, _, _, _)
gammaLoopFirstPairOnly(fullV0s, offset, selGammaIndices, k0short, j) ==
  IF j > Len(fullV0s) THEN << >>
  ELSE LET gamma == fullV0s[j]
           rest  == gammaLoopFirstPairOnly(fullV0s, offset, selGammaIndices,
                                           k0short, j + 1)
       IN IF ~selGammaIndices[localIndex(gamma, offset)] THEN rest
          ELSE IF k0short.globalIndex = gamma.globalIndex THEN rest
          ELSE IF ~checkTrackIndices(k0short, gamma) THEN rest
          ELSE << <<k0short.globalIndex, gamma.globalIndex>> >>

\* 2nd loop of buildV0V0Pairs (over gamma), from row j on: the calls of
\* analyseV0PairCandidate, as <<k0short.globalIndex, gamma.globalIndex>>
RECURSIVE gammaLoop(_, _, _, _, _)
gammaLoop(fullV0s, offset, selGammaIndices, k0short, j) ==
  IF j > Len(fullV0s) THEN << >>
  ELSE LET gamma == fullV0s[j]
           rest  == gammaLoop(fullV0s, offset, selGammaIndices, k0short, j + 1)
       IN IF ~selGammaIndices[localIndex(gamma, offset)] THEN rest
          ELSE IF k0short.globalIndex = gamma.globalIndex THEN rest
          ELSE IF ~checkTrackIndices(k0short, gamma) THEN rest
          ELSE << <<k0short.globalIndex, gamma.globalIndex>> >> \o rest

\* variant: the 1st loop does not test the K0-short mask
RECURSIVE k0shortLoopNoMask(_, _, _, _, _)
k0shortLoopNoMask(fullV0s, offset, selK0ShortIndices, selGammaIndices, i) ==
  IF i > Len(fullV0s) THEN << >>
  ELSE LET k0short == fullV0s[i]
           rest == k0shortLoopNoMask(fullV0s, offset, selK0ShortIndices,
                                     selGammaIndices, i + 1)
       IN gammaLoop(fullV0s, offset, selGammaIndices, k0short, 1) \o rest

\* 1st loop of buildV0V0Pairs (over k0short), from row i on
RECURSIVE k0shortLoop(_, _, _, _, _)
k0shortLoop(fullV0s, offset, selK0ShortIndices, selGammaIndices, i) ==
  IF i > Len(fullV0s) THEN << >>
  ELSE LET k0short == fullV0s[i]
           rest == k0shortLoop(fullV0s, offset, selK0ShortIndices,
                               selGammaIndices, i + 1)
       IN IF ~selK0ShortIndices[localIndex(k0short, offset)] THEN rest
          ELSE gammaLoop(fullV0s, offset, selGammaIndices, k0short, 1) \o rest

\* variant: the 1st loop starts at the second row
buildV0V0PairsFromSecondRow(fullV0s, offset, selK0ShortIndices, selGammaIndices) ==
  k0shortLoop(fullV0s, offset, selK0ShortIndices, selGammaIndices, 2)

buildV0V0Pairs(fullV0s, offset, selK0ShortIndices, selGammaIndices) ==
  k0shortLoop(fullV0s, offset, selK0ShortIndices, selGammaIndices, 1)

\* RecoDecay::y of the summed momentum, 1e-3 units, linear in the summed pz
\* (pz is carried in units of the pair's transverse mass)
pairRapidity(k0short, gamma) == FAdd(k0short.pz, gamma.pz)

\* analyseV0PairCandidate on the tables of processRealData (no MC block):
\* TRUE when the call reaches the fill of K0sGamma/h3dMassK0sGamma
pairReachesFill(k0short, gamma, cfg) ==
  LET rapidity == pairRapidity(k0short, gamma)
  IN ~(~cfg.doMCAssociation /\ FGt(FAbs(rapidity), cfg.rapidityCut))

\* ------------------------------------------------------------------------
\* the tables of processMonteCarlo: V0MCCandidates rows carry the link to
\* their V0MCCores row
\* ------------------------------------------------------------------------
\* a candidate whose link is unset: v0MCCore_as has no row to return
NoMCCore ==
  [ pdgCode |-> 0, pdgCodePositive |-> 0, pdgCodeNegative |-> 0,
    pdgCodeMother |-> 0, pzMC |-> 0 ]

withMCCore(v0, core) == v0 @@ [has_v0MCCore |-> TRUE, v0MC |-> core]
withoutMCCore(v0) == v0 @@ [has_v0MCCore |-> FALSE, v0MC |-> NoMCCore]

\* variant: no candidate is skipped
skipsCandidateNever(v0) == FALSE

\* the test of the loop of processMonteCarlo (line 1247)
skipsCandidate(v0) == ~v0.has_v0MCCore

\* the MC association that ends each branch of isV0Selected
mcAssociationReject(v0, isPhoton, cfg) ==
  /\ cfg.doMCAssociation
  /\ IF isPhoton
       THEN \/ v0.v0MC.pdgCode # 22
            \/ v0.v0MC.pdgCodePositive # 11
            \/ v0.v0MC.pdgCodeNegative # -11
       ELSE \/ v0.v0MC.pdgCode # 310
            \/ v0.v0MC.pdgCodePositive # 211
            \/ v0.v0MC.pdgCodeNegative # -211

\* isV0Selected on the tables of processMonteCarlo: the MC-association
\* block is compiled
isV0SelectedMC(v0, collision, isPhoton, cfg) ==
  IF isPhoton
    THEN firstReject(Append(photonRejects(v0, cfg),
                            mcAssociationReject(v0, TRUE, cfg)), 1) = 0
    ELSE firstReject(Append(k0ShortRejects(v0, collision, cfg),
                            mcAssociationReject(v0, FALSE, cfg)), 1) = 0

\* RecoDecay::y of the summed MC momentum, as pairRapidity
pairRapidityMC(k0shortMC, gammaMC) == FAdd(k0shortMC.pzMC, gammaMC.pzMC)

\* analyseV0PairCandidate on the tables of processMonteCarlo: TRUE when
\* the call reaches the fill of K0sGamma/h3dMassK0sGamma
pairReachesFillMC(k0short, gamma, cfg) ==
  IF cfg.doMCAssociation
    THEN /\ k0short.v0MC.pdgCodeMother = gamma.v0MC.pdgCodeMother
         /\ ~FGt(FAbs(pairRapidityMC(k0short.v0MC, gamma.v0MC)), cfg.rapidityCut)
    ELSE ~FGt(FAbs(pairRapidity(k0short, gamma)), cfg.rapidityCut)

\* std::count(mask.begin(), mask.end(), true)
countTrue(mask) == Cardinality({i \in 1..Len(mask) : mask[i]})

\* ------------------------------------------------------------------------
\* collisions and the event selection
\* ------------------------------------------------------------------------
BaseCollision ==
  [ runNumber |-> 1, sel8 |-> TRUE, kIsTriggerTVX |-> TRUE,
    kNoITSROFrameBorder |-> TRUE, kNoTimeFrameBorder |-> TRUE,
    posZ |-> 1000, kIsVertexITSTPC |-> TRUE, kIsGoodZvtxFT0vsPV |-> TRUE,
    kIsVertexTOFmatched |-> TRUE, kIsVertexTRDmatched |-> TRUE,
    kNoSameBunchPileup |-> TRUE, kNoCollInTimeRangeStandard |-> TRUE,
    kNoCollInTimeRangeStrict |-> TRUE, kNoCollInTimeRangeNarrow |-> TRUE,
    kNoCollInTimeRangeVzDependent |-> TRUE, kNoCollInRofStandard |-> TRUE,
    kNoCollInRofStrict |-> TRUE, multNTracksPVeta1 |-> 5,
    ft0cOccupancyInTimeRange |-> 100000, trackOccupancyInTimeRange |-> 100000 ]

\* the selections of isEventAccepted in the order of the source: entry k is
\* the condition under which the source returns false before filling bin k
eventRejects(collision, cfg) ==
  LET es == cfg.eventSelections
      collisionOccupancy == IF es.useFT0CbasedOccupancy
                              THEN collision.ft0cOccupancyInTimeRange
                              ELSE collision.trackOccupancyInTimeRange
  IN << es.requireSel8 /\ ~collision.sel8,
        es.requireTriggerTVX /\ ~collision.kIsTriggerTVX,
        es.rejectITSROFBorder /\ ~collision.kNoITSROFrameBorder,
        es.rejectTFBorder /\ ~collision.kNoTimeFrameBorder,
        FGt(FAbs(collision.posZ), es.maxZVtxPosition),
        es.requireIsVertexITSTPC /\ ~collision.kIsVertexITSTPC,
        es.requireIsGoodZvtxFT0VsPV /\ ~collision.kIsGoodZvtxFT0vsPV,
        es.requireIsVertexTOFmatched /\ ~collision.kIsVertexTOFmatched,
        es.requireIsVertexTRDmatched /\ ~collision.kIsVertexTRDmatched,
        es.rejectSameBunchPileup /\ ~collision.kNoSameBunchPileup,
        es.requireNoCollInTimeRangeStd /\ ~collision.kNoCollInTimeRangeStandard,
        es.requireNoCollInTimeRangeStrict /\ ~collision.kNoCollInTimeRangeStrict,
        es.requireNoCollInTimeRangeNarrow /\ ~collision.kNoCollInTimeRangeNarrow,
        es.requireNoCollInTimeRangeVzDep /\ ~collision.kNoCollInTimeRangeVzDependent,
        es.requireNoCollInROFStd /\ ~collision.kNoCollInRofStandard,
        es.requireNoCollInROFStrict /\ ~collision.kNoCollInRofStrict,
        IF cfg.doPPAnalysis
          THEN es.requireINEL0 /\ collision.multNTracksPVeta1 < 1
          ELSE FGe(es.minOccupancy, 0) /\ FLt(collisionOccupancy, es.minOccupancy),
        IF cfg.doPPAnalysis
          THEN es.requireINEL1 /\ collision.multNTracksPVeta1 < 2
          ELSE FGe(es.maxOccupancy, 0) /\ FGt(collisionOccupancy, es.maxOccupancy) >>

\* variant: the fill of a selection comes before its return
RECURSIVE eventSelectionFromFillingFirst(_, _, _, _)
eventSelectionFromFillingFirst(rejects, k, fillHists, fills) ==
  IF k > Len(rejects) THEN [accepted |-> TRUE, fills |-> fills]
  ELSE LET filled == IF fillHists THEN fills \cup {k} ELSE fills
       IN IF rejects[k] THEN [accepted |-> FALSE, fills |-> filled]
          ELSE eventSelectionFromFillingFirst(rejects, k + 1, fillHists, filled)

\* isEventAccepted from selection k on: a selection that rejects returns
\* false before its fill, one that passes fills bin k when fillHists is set.
\* fills: the bins of hEventSelection filled so far.
RECURSIVE eventSelectionFrom(_, _, _, _)
eventSelectionFrom(rejects, k, fillHists, fills) ==
  IF k > Len(rejects) THEN [accepted |-> TRUE, fills |-> fills]
  ELSE IF rejects[k] THEN [accepted |-> FALSE, fills |-> fills]
  ELSE eventSelectionFrom(rejects, k + 1, fillHists,
                          IF fillHists THEN fills \cup {k} ELSE fills)

\* variant: every collision is accepted
isEventAcceptedAlways(collision, cfg, fillHists) ==
  [eventSelectionFrom(eventRejects(collision, cfg), 1, fillHists,
                      IF fillHists THEN {0} ELSE {})
     EXCEPT !.accepted = TRUE]

\* isEventAccepted(collision, fillHists): the value returned and the bins
\* of hEventSelection filled by the call
isEventAccepted(collision, cfg, fillHists) ==
  eventSelectionFrom(eventRejects(collision, cfg), 1, fillHists,
                     IF fillHists THEN {0} ELSE {})

\* axis of hEventSelection: 20 bins centred on 0..19
EventSelectionBins == 0..19

\* ------------------------------------------------------------------------
\* CCDB and the ML models
\* ------------------------------------------------------------------------
\* the condition of processRealData under which initCCDB is called
firesCCDB(cfg) ==
  LET ml == cfg.mlConfigurations
  IN \/ cfg.cfgSkimmedProcessing
     \/ (ml.useK0ShortScores /\ ml.calculateK0ShortScores)
     \/ (ml.useLambdaScores /\ ml.calculateLambdaScores)
     \/ (ml.useAntiLambdaScores /\ ml.calculateAntiLambdaScores)
     \/ (ml.useGammaScores /\ ml.calculateGammaScores)

\* the order in which loadMachines handles the four models
ModelOrder == << "Lambda", "AntiLambda", "K0Short", "Gamma" >>

calculates(cfg, m) ==
  LET ml == cfg.mlConfigurations
  IN CASE m = "Lambda"     -> ml.calculateLambdaScores
       [] m = "AntiLambda" -> ml.calculateAntiLambdaScores
       [] m = "K0Short"    -> ml.calculateK0ShortScores
       [] m = "Gamma"      -> ml.calculateGammaScores

\* loadMachines from model k of ModelOrder on.  models: which OnnxModel is
\* initialised; retrieved: result of ccdbApi.retrieveBlob per model.
\* LOG(fatal) ends the process: the models after it are not handled.
RECURSIVE loadFromInitialisingAnyway(_, _, _, _)
loadFromInitialisingAnyway(cfg, models, retrieved, k) ==
  IF k > Len(ModelOrder) THEN [models |-> models, fatal |-> FALSE]
  ELSE LET m == ModelOrder[k]
       IN IF ~calculates(cfg, m)
            THEN loadFromInitialisingAnyway(cfg, models, retrieved, k + 1)
          ELSE IF cfg.mlConfigurations.loadCustomModelsFromCCDB /\ ~retrieved[m]
            THEN [models |-> [models EXCEPT ![m] = TRUE], fatal |-> TRUE]
          ELSE loadFromInitialisingAnyway(cfg, [models EXCEPT ![m] = TRUE],
                                          retrieved, k + 1)

RECURSIVE loadFrom(_, _, _, _)
loadFrom(cfg, models, retrieved, k) ==
  IF k > Len(ModelOrder) THEN [models |-> models, fatal |-> FALSE]
  ELSE LET m == ModelOrder[k]
       IN IF ~calculates(cfg, m)
            THEN loadFrom(cfg, models, retrieved, k + 1)
          ELSE IF cfg.mlConfigurations.loadCustomModelsFromCCDB /\ ~retrieved[m]
            THEN [models |-> models, fatal |-> TRUE]
          ELSE loadFrom(cfg, [models EXCEPT ![m] = TRUE], retrieved, k + 1)

loadMachines(cfg, models, retrieved) == loadFrom(cfg, models, retrieved, 1)

\* variant: the run number of the collision is not stored
initCCDBKeepingRunNumber(cfg, runNumberBefore, models, collision, retrieved) ==
  LET ml == cfg.mlConfigurations
  IN IF runNumberBefore = collision.runNumber
       THEN [mRunNumber |-> runNumberBefore, models |-> models,
             fatal |-> FALSE, again |-> FALSE]
     ELSE IF ml.calculateK0ShortScores \/ ml.calculateLambdaScores
             \/ ml.calculateAntiLambdaScores \/ ml.calculateGammaScores
       THEN [mRunNumber |-> runNumberBefore, again |-> TRUE] @@
            loadMachines(cfg, models, retrieved)
     ELSE [mRunNumber |-> runNumberBefore, models |-> models,
           fatal |-> FALSE, again |-> TRUE]

\* initCCDB: the new mRunNumber, the models, whether LOG(fatal) was hit and
\* whether the call went past the run-number gate (again)
initCCDB(cfg, runNumberBefore, models, collision, retrieved) ==
  LET ml == cfg.mlConfigurations
  IN IF runNumberBefore = collision.runNumber
       THEN [mRunNumber |-> runNumberBefore, models |-> models,
             fatal |-> FALSE, again |-> FALSE]
     ELSE IF ml.calculateK0ShortScores \/ ml.calculateLambdaScores
             \/ ml.calculateAntiLambdaScores \/ ml.calculateGammaScores
       THEN [mRunNumber |-> collision.runNumber, again |-> TRUE] @@
            loadMachines(cfg, models, retrieved)
     ELSE [mRunNumber |-> collision.runNumber, models |-> models,
           fatal |-> FALSE, again |-> TRUE]

\* ------------------------------------------------------------------------
\* Inputs of the scenarios
\* ------------------------------------------------------------------------
ModelNames == { "Lambda", "AntiLambda", "K0Short", "Gamma" }

\* values evalModel can return as probability[1]
Probabilities == { 500, 800 }

\* values mRunNumber can hold before its first assignment (the member has
\* no initialiser and init() does not set it)
UninitRunNumbers == { 0, BaseCollision.runNumber }

\* a batch as the grouped table hands it over: row i has global index
\* offset + i - 1
asTable(rows, offset) ==
  [i \in 1..Len(rows) |-> [rows[i] EXCEPT !.globalIndex = offset + i - 1]]

\* all batches of at most max rows drawn from kinds
Batches(kinds, max) == UNION { [1..n -> kinds] : n \in 0..max }

\* --- pairing scenarios: cut-based selection, every combination of the two
\* --- bits, daughter references that overlap in each of the four ways, pair
\* --- rapidities inside, on and beyond the default window on both sides
withDaughters(v0, pos, neg, pz) ==
  [v0 EXCEPT !.posTrackExtraId = pos, !.negTrackExtraId = neg, !.pz = pz]

\* passes the K0-short cuts only / the photon cuts only / both / none
K0OnlyV0    == [BaseV0 EXCEPT !.mGamma = 9000]
GammaOnlyV0 == [BaseV0 EXCEPT !.mK0Short = 300000]
BothV0      == BaseV0
NeitherV0   == [BaseV0 EXCEPT !.v0cosPA = 900]

PairKinds ==
  { withDaughters(K0OnlyV0, 1, 2, -50),
    withDaughters(K0OnlyV0, 2, 3, -100),
    withDaughters(GammaOnlyV0, 3, 4, -450),
    withDaughters(GammaOnlyV0, 1, 2, -450),
    withDaughters(BothV0, 1, 4, 300),
    withDaughters(BothV0, 5, 2, -150),
    withDaughters(BothV0, 2, 3, 300),
    withDaughters(BothV0, 5, 6, 0),
    withDaughters(NeitherV0, 1, 2, 0) }

PairConfigs ==
  { DefaultConfig, [DefaultConfig EXCEPT !.doMCAssociation = FALSE] }

PairOffsets == { 5 }

\* --- selection scenarios: BaseV0 and candidates that differ from it in
\* --- one column, on and around the thresholds
SelV0s ==
  { BaseV0,
    [BaseV0 EXCEPT !.v0cosPA = 970],
    [BaseV0 EXCEPT !.v0cosPA = 969],
    [BaseV0 EXCEPT !.mK0Short = MassK0Short + 8000],
    [BaseV0 EXCEPT !.mK0Short = MassK0Short - 8000],
    [BaseV0 EXCEPT !.mK0Short = MassK0Short + 8001],
    [BaseV0 EXCEPT !.mK0Short = MassK0Short - 7999],
    [BaseV0 EXCEPT !.mGamma = 9000],
    [BaseV0 EXCEPT !.mLambda = MassLambda0 + 1000],
    [BaseV0 EXCEPT !.negativeeta = 850],
    [BaseV0 EXCEPT !.positiveeta = -850],
    [BaseV0 EXCEPT !.v0Type = 0],
    [BaseV0 EXCEPT !.v0radius = 1000],
    [BaseV0 EXCEPT !.z = 250000],
    [BaseV0 EXCEPT !.posTrackExtra.tpcNSigmaPi = 6000],
    [BaseV0 EXCEPT !.negTrackExtra.tpcNSigmaEl = -6000],
    [BaseV0 EXCEPT !.k0ShortBDTScore = 500],
    [BaseV0 EXCEPT !.k0ShortBDTScore = 900],
    [BaseV0 EXCEPT !.antiLambdaBDTScore = 500],
    [BaseV0 EXCEPT !.antiLambdaBDTScore = 300],
    [BaseV0 EXCEPT !.lambdaBDTScore = 300] }

withMl(config, ml) == [config EXCEPT !.mlConfigurations = ml]

SelConfigs ==
  LET ml == DefaultMlConfigurations
      vs == DefaultV0Selections
      ps == DefaultPhotonSelections
  IN { DefaultConfig,
       \* score-based modes with the scores of the derived data
       withMl(DefaultConfig, [ml EXCEPT !.useK0ShortScores = TRUE,
                                        !.thresholdK0Short = 500]),
       withMl(DefaultConfig, [ml EXCEPT !.useK0ShortScores = TRUE,
                                        !.thresholdK0Short = 900]),
       withMl(DefaultConfig, [ml EXCEPT !.useGammaScores = TRUE,
                                        !.thresholdGamma = 500]),
       withMl(DefaultConfig, [ml EXCEPT !.useGammaScores = TRUE,
                                        !.thresholdGamma = 900]),
       \* score-based mode with calculated scores
       withMl(DefaultConfig, [ml EXCEPT !.useK0ShortScores = TRUE,
                                        !.useGammaScores = TRUE,
                                        !.calculateK0ShortScores = TRUE,
                                        !.calculateGammaScores = TRUE,
                                        !.thresholdK0Short = 500,
                                        !.thresholdGamma = 500]),
       \* ML settings without the score-based mode
       withMl(DefaultConfig, [ml EXCEPT !.calculateK0ShortScores = TRUE,
                                        !.calculateGammaScores = TRUE]),
       withMl(DefaultConfig, [ml EXCEPT !.thresholdK0Short = 900,
                                        !.thresholdGamma = 900]),
       \* thresholds of the two cut sets
       [DefaultConfig EXCEPT !.photonSelections = [ps EXCEPT !.daughterEtaCut = 900]],
       [DefaultConfig EXCEPT !.photonSelections = [ps EXCEPT !.v0TypeSelection = 0]],
       [DefaultConfig EXCEPT !.photonSelections = [ps EXCEPT !.v0cospa = 990]],
       [DefaultConfig EXCEPT !.v0Selections = [vs EXCEPT !.daughterEtaCut = 900]],
       [DefaultConfig EXCEPT !.v0Selections = [vs EXCEPT !.v0TypeSelection = 0]],
       [DefaultConfig EXCEPT !.v0Selections = [vs EXCEPT !.v0cospa = 990]],
       [DefaultConfig EXCEPT !.v0Selections = [vs EXCEPT !.v0MassWindow = 7999]] }

SelOffsets == { 5 }

\* --- cut scenarios: cut-based selection of one candidate, Armenteros
\* --- variables and competing mass on and around the thresholds, columns
\* --- holding NaN, candidates failing several cuts
MaxCutV0s == 1

CutV0s ==
  { BaseV0,
    \* qt * k = 0.2 * 5 = |alpha|, and just beyond
    [BaseV0 EXCEPT !.alpha = 1000],
    [BaseV0 EXCEPT !.alpha = -1000],
    [BaseV0 EXCEPT !.alpha = -1001],
    \* alpha = 0: below qt * k for every k > 0
    [BaseV0 EXCEPT !.alpha = 0],
    \* competing mass inside, on the edge of, outside the rejection
    [BaseV0 EXCEPT !.mLambda = MassLambda0 + 1000],
    [BaseV0 EXCEPT !.mLambda = MassLambda0 - 7999],
    [BaseV0 EXCEPT !.mLambda = MassLambda0 + 8000],
    [BaseV0 EXCEPT !.mK0Short = MassK0Short + 9000],
    [BaseV0 EXCEPT !.mK0Short = MassK0Short + 9000,
                   !.mLambda = MassLambda0 + 1000],
    \* several cuts fail at once
    [BaseV0 EXCEPT !.v0cosPA = 900, !.v0radius = 100, !.alpha = -1001],
    [BaseV0 EXCEPT !.mGamma = 9000, !.alpha = -1001],
    \* NaN in one column
    [BaseV0 EXCEPT !.v0radius = NaN],
    [BaseV0 EXCEPT !.v0cosPA = NaN],
    [BaseV0 EXCEPT !.dcaV0daughters = NaN],
    [BaseV0 EXCEPT !.mK0Short = NaN],
    [BaseV0 EXCEPT !.mGamma = NaN],
    [BaseV0 EXCEPT !.mLambda = NaN],
    [BaseV0 EXCEPT !.qtarm = NaN],
    [BaseV0 EXCEPT !.posTrackExtra.tpcNSigmaPi = NaN],
    [BaseV0 EXCEPT !.negTrackExtra.tpcNSigmaEl = NaN],
    \* NaN in one column of a candidate that fails another cut
    [BaseV0 EXCEPT !.v0cosPA = NaN, !.v0radius = 100] }

\* both armPodCut set to k (1e-5)
withArmPodCut(config, k) ==
  [config EXCEPT !.v0Selections.armPodCut = k,
                 !.photonSelections.armPodCut = k]

CutConfigs ==
  { DefaultConfig,
    withArmPodCut(DefaultConfig, 11),
    withArmPodCut(DefaultConfig, 10),
    withArmPodCut(DefaultConfig, 5),
    withArmPodCut(DefaultConfig, 0),
    withArmPodCut(DefaultConfig, -500000) }

CutOffsets == { 0 }

\* --- topology scenarios: cut-based selection of one candidate, daughter
\* --- DCA to the primary vertex and conversion point z on both sides of
\* --- the thresholds
MaxTopoV0s == 1

TopoV0s ==
  { BaseV0,
    [BaseV0 EXCEPT !.dcanegtopv = 49],
    [BaseV0 EXCEPT !.dcanegtopv = 50],
    [BaseV0 EXCEPT !.dcanegtopv = 100],
    [BaseV0 EXCEPT !.dcanegtopv = -100],
    [BaseV0 EXCEPT !.dcanegtopv = -20],
    [BaseV0 EXCEPT !.dcapostopv = 20],
    [BaseV0 EXCEPT !.dcapostopv = 50],
    [BaseV0 EXCEPT !.z = 240000],
    [BaseV0 EXCEPT !.z = 250000],
    [BaseV0 EXCEPT !.z = -240000],
    [BaseV0 EXCEPT !.z = -250000],
    [BaseV0 EXCEPT !.z = -250000, !.mK0Short = MassK0Short + 9000] }

TopoConfigs ==
  { DefaultConfig,
    [DefaultConfig EXCEPT !.photonSelections.photonZMax = 100000],
    [DefaultConfig EXCEPT !.v0Selections.dcanegtopv = 100,
                          !.photonSelections.dcanegtopv = 100] }

TopoOffsets == { 0 }

\* --- run scenarios: a job of several collisions of two runs, accepted
\* --- ones and ones failing the first, a middle and the last selections,
\* --- with and without models to load
MaxCollisions == 2

MaxRunV0s == 1

RunCollisions ==
  { BaseCollision,
    [BaseCollision EXCEPT !.runNumber = 2],
    [BaseCollision EXCEPT !.runNumber = 0],
    [BaseCollision EXCEPT !.sel8 = FALSE],
    [BaseCollision EXCEPT !.runNumber = 2, !.posZ = -10001],
    [BaseCollision EXCEPT !.runNumber = 2, !.kNoSameBunchPileup = FALSE],
    [BaseCollision EXCEPT !.multNTracksPVeta1 = 0],
    [BaseCollision EXCEPT !.multNTracksPVeta1 = 1],
    [BaseCollision EXCEPT !.trackOccupancyInTimeRange = 300000] }

RunV0s == { BaseV0, NeitherV0 }

RunConfigs ==
  LET ml == DefaultMlConfigurations
      es == DefaultEventSelections
      calculated == [ml EXCEPT !.useK0ShortScores = TRUE,
                               !.useGammaScores = TRUE,
                               !.calculateK0ShortScores = TRUE,
                               !.calculateGammaScores = TRUE,
                               !.thresholdK0Short = 500,
                               !.thresholdGamma = 500]
  IN { DefaultConfig,
       withMl(DefaultConfig, calculated),
       withMl(DefaultConfig, [calculated EXCEPT !.loadCustomModelsFromCCDB = TRUE]),
       \* skimmed data: initCCDB is called whatever the ML settings
       [withMl(DefaultConfig, [ml EXCEPT !.loadCustomModelsFromCCDB = TRUE])
          EXCEPT !.cfgSkimmedProcessing = TRUE],
       [withMl(DefaultConfig, [ml EXCEPT !.loadCustomModelsFromCCDB = TRUE,
                                         !.calculateK0ShortScores = TRUE])
          EXCEPT !.cfgSkimmedProcessing = TRUE],
       \* the last selection in pp and in Pb-Pb
       [DefaultConfig EXCEPT !.eventSelections = [es EXCEPT !.requireINEL1 = TRUE]],
       [DefaultConfig EXCEPT !.doPPAnalysis = FALSE,
                             !.eventSelections = [es EXCEPT !.minOccupancy = 0,
                                                            !.maxOccupancy = 200000]] }

RunOffsets == { 0 }

\* --- Monte Carlo scenarios: cut-based selection of candidates that pass
\* --- both cut sets, linked to a true K0-short, a true photon, another
\* --- particle, or to no MC core at all
MaxMCV0s == 3

K0ShortCore ==
  [ pdgCode |-> 310, pdgCodePositive |-> 211, pdgCodeNegative |-> -211,
    pdgCodeMother |-> 313, pzMC |-> 100 ]

GammaCore ==
  [ pdgCode |-> 22, pdgCodePositive |-> 11, pdgCodeNegative |-> -11,
    pdgCodeMother |-> 313, pzMC |-> -200 ]

LambdaCore ==
  [ pdgCode |-> 3122, pdgCodePositive |-> 2212, pdgCodeNegative |-> -211,
    pdgCodeMother |-> 0, pzMC |-> 0 ]

MCV0s ==
  { withMCCore(withDaughters(BothV0, 1, 2, 0), K0ShortCore),
    withMCCore(withDaughters(BothV0, 3, 4, 0), GammaCore),
    withMCCore(withDaughters(BothV0, 5, 6, 0), [GammaCore EXCEPT !.pdgCodeMother = 0]),
    withMCCore(withDaughters(BothV0, 7, 8, 0), LambdaCore),
    withoutMCCore(withDaughters(BothV0, 9, 10, 0)),
    withoutMCCore(withDaughters(NeitherV0, 11, 12, 0)) }

MCConfigs ==
  { DefaultConfig, [DefaultConfig EXCEPT !.doMCAssociation = FALSE] }

MCOffsets == { 0, 5 }

\* ------------------------------------------------------------------------
\* readv0s (PWGLF/Tasks/Strangeness/readv0s.cxx)
\* ------------------------------------------------------------------------
\* hV0s: 4 bins over [0, 4), labelled in init()
HV0sBins == 1..4
BinAll == 1
BinStandardV0s == 2
BinGlobalTracks == 3
BinNonITSTrack == 4

\* TH1::Fill(x) on the axis of hV0s, x in tenths: the bin that holds x
hV0sBinOf(x) == (x \div 10) + 1

fillHV0s(h, x) == [h EXCEPT ![hV0sBinOf(x)] = @ + 1]

\* variant: both daughters must lack the ITS
hasNonITSDaughterBoth(posPartTrack, negPartTrack) ==
  ~posPartTrack.hasITS /\ ~negPartTrack.hasITS

\* the test `!posPartTrack.hasITS() || !negPartTrack.hasITS()`
hasNonITSDaughter(posPartTrack, negPartTrack) ==
  ~posPartTrack.hasITS \/ ~negPartTrack.hasITS

\* the body of the loop over the V0s, the same in processOriginal and
\* processDerived, from row i on
RECURSIVE v0Loop(_, _, _)
v0Loop(h, table, i) ==
  IF i > Len(table) THEN h
  ELSE LET v0 == table[i]
           all == fillHV0s(h, 5)
       IN IF v0.v0Type # 1
            THEN v0Loop(all, table, i + 1)
            ELSE LET standard == fillHV0s(all, 15)
                 IN IF hasNonITSDaughter(v0.posTrack, v0.negTrack)
                      THEN v0Loop(fillHV0s(standard, 35), table, i + 1)
                      ELSE v0Loop(fillHV0s(standard, 25), table, i + 1)

\* --- readv0s scenarios: V0s of type 1 with each combination of daughters
\* --- with and without ITS, and a V0 of another type
MaxReadV0s == 5

MaxTableV0s == 2

ReadV0Kinds ==
  { [v0Type |-> t, posTrack |-> [hasITS |-> p], negTrack |-> [hasITS |-> n]] :
      t \in {1}, p \in BOOLEAN, n \in BOOLEAN }
  \cup
  { [v0Type |-> 0, posTrack |-> [hasITS |-> FALSE], negTrack |-> [hasITS |-> TRUE]] }

\* ------------------------------------------------------------------------
\* State
\* ------------------------------------------------------------------------
VARIABLES
  cfg,                \* the Configurables (fixed after construction)
  mRunNumber,         \* member mRunNumber
  mlModels,           \* which of the four OnnxModel members is initialised
  pc,                 \* position in processRealData
  collision,          \* the collision being processed
  fullV0s,            \* its V0 candidates
  v0TableOffset,      \* fullV0s.offset()
  selK0ShortIndices,  \* local mask of processRealData
  selGammaIndices,    \* local mask of processRealData
  iV0,                \* row of the classification loop
  evalOutputs,        \* per row, what evalModel returned (K0Short, Gamma)
  calls,              \* isV0Selected / evalModel calls of this collision
  pairCalls,          \* analyseV0PairCandidate calls of this collision
  h3dMassK0sGamma,    \* fills of K0sGamma/h3dMassK0sGamma of this collision
  hEventSelection,    \* content of hEventSelection, per bin
  nCollisions,        \* history: calls of processRealData
  nAccepted,          \* history: calls in which isEventAccepted returned true
  lastInitCCDB,       \* history: the last call of initCCDB
  hV0s,               \* readv0s: content of hV0s, per bin
  lastReadV0s         \* readv0s, history: the last process call and its table

vars == << cfg, mRunNumber, mlModels, pc, collision, fullV0s, v0TableOffset,
           selK0ShortIndices, selGammaIndices, iV0, evalOutputs, calls,
           pairCalls, h3dMassK0sGamma, hEventSelection, nCollisions,
           nAccepted, lastInitCCDB, hV0s, lastReadV0s >>

batch == << fullV0s, v0TableOffset, selK0ShortIndices, selGammaIndices, iV0,
            evalOutputs, calls, pairCalls, h3dMassK0sGamma >>

locals == << collision, fullV0s, v0TableOffset, selK0ShortIndices,
             selGammaIndices, iV0, evalOutputs, calls, pairCalls,
             h3dMassK0sGamma >>

history == << hEventSelection, nCollisions, nAccepted, lastInitCCDB >>

\* the state of the KstarToK0Gamma task / of the readv0s task
kstarVars == << cfg, mRunNumber, mlModels, pc, locals, history >>
readv0sVars == << hV0s, lastReadV0s >>

\* no call of initCCDB yet
NoInitCCDB == [called |-> FALSE, again |-> FALSE,
               retrieved |-> [m \in ModelNames |-> TRUE]]

NoModels == [m \in ModelNames |-> FALSE]

InitWith(configs) ==
  /\ cfg \in configs
  /\ mRunNumber \in UninitRunNumbers
  /\ mlModels = NoModels
  /\ pc = "idle"
  /\ collision = BaseCollision
  /\ fullV0s = << >>
  /\ v0TableOffset = 0
  /\ selK0ShortIndices = << >>
  /\ selGammaIndices = << >>
  /\ iV0 = 1
  /\ evalOutputs = << >>
  /\ calls = << >>
  /\ pairCalls = << >>
  /\ h3dMassK0sGamma = << >>
  /\ hEventSelection = [b \in EventSelectionBins |-> 0]
  /\ nCollisions = 0
  /\ nAccepted = 0
  /\ lastInitCCDB = NoInitCCDB
  /\ hV0s = [b \in HV0sBins |-> 0]
  /\ lastReadV0s = [process |-> "none", table |-> << >>]

\* ------------------------------------------------------------------------
\* processRealData
\* ------------------------------------------------------------------------
\* entry, up to the construction of the two masks (lines 1167-1194)
ProcessRealData(coll, rows, offset, retrieved) ==
  /\ pc = "idle"
  /\ LET called == firesCCDB(cfg)
         ccdb == IF called
                   THEN initCCDB(cfg, mRunNumber, mlModels, coll, retrieved)
                   ELSE [mRunNumber |-> mRunNumber, models |-> mlModels,
                         fatal |-> FALSE, again |-> FALSE]
     IN /\ mRunNumber' = ccdb.mRunNumber
        /\ mlModels' = ccdb.models
        /\ lastInitCCDB' = IF called
                             THEN [called |-> TRUE, again |-> ccdb.again,
                                   retrieved |-> retrieved]
                             ELSE lastInitCCDB
        /\ nCollisions' = nCollisions + 1
        /\ collision' = coll
        /\ IF ccdb.fatal
             THEN /\ pc' = "fatal"
                  /\ UNCHANGED << hEventSelection, nAccepted, batch >>
             ELSE /\ hEventSelection' =
                       [b \in EventSelectionBins |->
                          IF b \in isEventAccepted(coll, cfg, TRUE).fills
                            THEN hEventSelection[b] + 1
                            ELSE hEventSelection[b]]
                  /\ IF ~isEventAccepted(coll, cfg, TRUE).accepted
                       THEN /\ pc' = "idle"
                            /\ UNCHANGED << nAccepted, batch >>
                       ELSE /\ nAccepted' = nAccepted + 1
                            /\ fullV0s' = asTable(rows, offset)
                            /\ v0TableOffset' = offset
                            /\ selK0ShortIndices' = [i \in 1..Len(rows) |-> FALSE]
                            /\ selGammaIndices' = [i \in 1..Len(rows) |-> FALSE]
                            /\ evalOutputs' = [i \in 1..Len(rows) |-> <<0, 0>>]
                            /\ iV0' = 1
                            /\ calls' = << >>
                            /\ pairCalls' = << >>
                            /\ h3dMassK0sGamma' = << >>
                            /\ pc' = IF Len(rows) = 0 THEN "pairs" ELSE "classify"
  /\ UNCHANGED << cfg, readv0sVars >>

\* variant: evaluating the selections clears mRunNumber
AnalyseV0CandidateClearingRunNumber ==
  /\ pc = "classify"
  /\ LET v0 == fullV0s[iV0]
         ml == cfg.mlConfigurations
         evalK0Short == ml.useK0ShortScores /\ ml.calculateK0ShortScores
         evalGamma == ml.useGammaScores /\ ml.calculateGammaScores
         uninitialised == \/ evalK0Short /\ ~mlModels["K0Short"]
                          \/ evalGamma /\ ~mlModels["Gamma"]
     IN \E crash \in (IF uninitialised THEN BOOLEAN ELSE {FALSE}),
           k0shortProbability \in (IF evalK0Short THEN Probabilities ELSE {0}),
           gammaProbability \in (IF evalGamma THEN Probabilities ELSE {0}) :
          IF crash
            THEN /\ pc' = "crashed"
                 /\ UNCHANGED locals
            ELSE /\ selK0ShortIndices' =
                      [selK0ShortIndices EXCEPT ![localIndex(v0, v0TableOffset)] =
                         passK0ShortSelections(v0, collision, k0shortProbability, cfg)]
                 /\ selGammaIndices' =
                      [selGammaIndices EXCEPT ![localIndex(v0, v0TableOffset)] =
                         passGammaSelections(v0, collision, gammaProbability, cfg)]
                 /\ evalOutputs' = [evalOutputs EXCEPT ![iV0] =
                                      <<k0shortProbability, gammaProbability>>]
                 /\ calls' = calls \o candidateCalls(v0, cfg)
                 /\ iV0' = iV0 + 1
                 /\ pc' = IF iV0 = Len(fullV0s) THEN "pairs" ELSE "classify"
                 /\ UNCHANGED << collision, fullV0s, v0TableOffset, pairCalls,
                                 h3dMassK0sGamma >>
  /\ mRunNumber' = 0
  /\ UNCHANGED << cfg, mlModels >>
  /\ UNCHANGED << history, readv0sVars >>

\* one iteration of the loop over fullV0s (lines 1195-1200): analyseV0Candidate
AnalyseV0Candidate ==
  /\ pc = "classify"
  /\ LET v0 == fullV0s[iV0]
         ml == cfg.mlConfigurations
         evalK0Short == ml.useK0ShortScores /\ ml.calculateK0ShortScores
         evalGamma == ml.useGammaScores /\ ml.calculateGammaScores
         uninitialised == \/ evalK0Short /\ ~mlModels["K0Short"]
                          \/ evalGamma /\ ~mlModels["Gamma"]
     IN \E crash \in (IF uninitialised THEN BOOLEAN ELSE {FALSE}),
           k0shortProbability \in (IF evalK0Short THEN Probabilities ELSE {0}),
           gammaProbability \in (IF evalGamma THEN Probabilities ELSE {0}) :
          IF crash
            THEN /\ pc' = "crashed"
                 /\ UNCHANGED locals
            ELSE /\ selK0ShortIndices' =
                      [selK0ShortIndices EXCEPT ![localIndex(v0, v0TableOffset)] =
                         passK0ShortSelections(v0, collision, k0shortProbability, cfg)]
                 /\ selGammaIndices' =
                      [selGammaIndices EXCEPT ![localIndex(v0, v0TableOffset)] =
                         passGammaSelections(v0, collision, gammaProbability, cfg)]
                 /\ evalOutputs' = [evalOutputs EXCEPT ![iV0] =
                                      <<k0shortProbability, gammaProbability>>]
                 /\ calls' = calls \o candidateCalls(v0, cfg)
                 /\ iV0' = iV0 + 1
                 /\ pc' = IF iV0 = Len(fullV0s) THEN "pairs" ELSE "classify"
                 /\ UNCHANGED << collision, fullV0s, v0TableOffset, pairCalls,
                                 h3dMassK0sGamma >>
  /\ UNCHANGED << cfg, mRunNumber, mlModels >>
  /\ UNCHANGED << history, readv0sVars >>

\* row of fullV0s with a given global index
rowOf(table, globalIndex) ==
  CHOOSE v \in { table[i] : i \in 1..Len(table) } : v.globalIndex = globalIndex

\* fills of h3dMassK0sGamma made by a sequence of analyseV0PairCandidate calls
RECURSIVE fillsOf(_, _, _)
fillsOf(table, pairs, config) ==
  IF pairs = << >> THEN << >>
  ELSE LET k0short == rowOf(table, Head(pairs)[1])
           gamma == rowOf(table, Head(pairs)[2])
           rest == fillsOf(table, Tail(pairs), config)
       IN IF pairReachesFill(k0short, gamma, config)
            THEN << <<k0short.globalIndex, gamma.globalIndex,
                      pairRapidity(k0short, gamma)>> >> \o rest
            ELSE rest

\* the counting of the masks and the pair building (lines 1202-1214)
CountAndBuildPairs ==
  /\ pc = "pairs"
  /\ LET nK0Shorts == countTrue(selK0ShortIndices)
         nGammas == countTrue(selGammaIndices)
         built == IF nK0Shorts >= 1 /\ nGammas >= 1
                    THEN buildV0V0Pairs(fullV0s, v0TableOffset,
                                        selK0ShortIndices, selGammaIndices)
                    ELSE << >>
     IN /\ pairCalls' = built
        /\ h3dMassK0sGamma' = fillsOf(fullV0s, built, cfg)
  /\ pc' = "done"
  /\ UNCHANGED << cfg, mRunNumber, mlModels, collision, fullV0s, v0TableOffset,
                  selK0ShortIndices, selGammaIndices, iV0, evalOutputs, calls >>
  /\ UNCHANGED << history, readv0sVars >>

\* return of processRealData: its locals go out of scope
ProcessReturn ==
  /\ pc = "done"
  /\ pc' = "idle"
  /\ fullV0s' = << >>
  /\ v0TableOffset' = 0
  /\ selK0ShortIndices' = << >>
  /\ selGammaIndices' = << >>
  /\ iV0' = 1
  /\ evalOutputs' = << >>
  /\ calls' = << >>
  /\ pairCalls' = << >>
  /\ h3dMassK0sGamma' = << >>
  /\ UNCHANGED << cfg, mRunNumber, mlModels, collision >>
  /\ UNCHANGED << history, readv0sVars >>

\* ------------------------------------------------------------------------
\* processMonteCarlo
\* ------------------------------------------------------------------------
\* entry, up to the construction of the two masks (lines 1217-1245)
ProcessMonteCarlo(coll, rows, offset, retrieved) ==
  /\ pc = "idle"
  /\ LET called == firesCCDB(cfg)
         ccdb == IF called
                   THEN initCCDB(cfg, mRunNumber, mlModels, coll, retrieved)
                   ELSE [mRunNumber |-> mRunNumber, models |-> mlModels,
                         fatal |-> FALSE, again |-> FALSE]
     IN /\ mRunNumber' = ccdb.mRunNumber
        /\ mlModels' = ccdb.models
        /\ lastInitCCDB' = IF called
                             THEN [called |-> TRUE, again |-> ccdb.again,
                                   retrieved |-> retrieved]
                             ELSE lastInitCCDB
        /\ nCollisions' = nCollisions + 1
        /\ collision' = coll
        /\ IF ccdb.fatal
             THEN /\ pc' = "fatal"
                  /\ UNCHANGED << hEventSelection, nAccepted, batch >>
             ELSE /\ hEventSelection' =
                       [b \in EventSelectionBins |->
                          IF b \in isEventAccepted(coll, cfg, TRUE).fills
                            THEN hEventSelection[b] + 1
                            ELSE hEventSelection[b]]
                  /\ IF ~isEventAccepted(coll, cfg, TRUE).accepted
                       THEN /\ pc' = "idle"
                            /\ UNCHANGED << nAccepted, batch >>
                       ELSE /\ nAccepted' = nAccepted + 1
                            /\ fullV0s' = asTable(rows, offset)
                            /\ v0TableOffset' = offset
                            /\ selK0ShortIndices' = [i \in 1..Len(rows) |-> FALSE]
                            /\ selGammaIndices' = [i \in 1..Len(rows) |-> FALSE]
                            /\ evalOutputs' = [i \in 1..Len(rows) |-> <<0, 0>>]
                            /\ iV0' = 1
                            /\ calls' = << >>
                            /\ pairCalls' = << >>
                            /\ h3dMassK0sGamma' = << >>
                            /\ pc' = IF Len(rows) = 0 THEN "pairsMC" ELSE "classifyMC"
  /\ UNCHANGED << cfg, readv0sVars >>

\* one iteration of the loop over fullV0s (lines 1246-1258): the candidates
\* without MC core are skipped, the others go through analyseV0Candidate
AnalyseV0CandidateMC ==
  /\ pc = "classifyMC"
  /\ LET v0 == fullV0s[iV0]
         ml == cfg.mlConfigurations
         evalK0Short == ml.useK0ShortScores /\ ml.calculateK0ShortScores
         evalGamma == ml.useGammaScores /\ ml.calculateGammaScores
         uninitialised == \/ evalK0Short /\ ~mlModels["K0Short"]
                          \/ evalGamma /\ ~mlModels["Gamma"]
     IN IF skipsCandidate(v0)
          THEN /\ iV0' = iV0 + 1
               /\ pc' = IF iV0 = Len(fullV0s) THEN "pairsMC" ELSE "classifyMC"
               /\ UNCHANGED << collision, fullV0s, v0TableOffset,
                               selK0ShortIndices, selGammaIndices, evalOutputs,
                               calls, pairCalls, h3dMassK0sGamma >>
          ELSE
        \E crash \in (IF uninitialised THEN BOOLEAN ELSE {FALSE}),
           k0shortProbability \in (IF evalK0Short THEN Probabilities ELSE {0}),
           gammaProbability \in (IF evalGamma THEN Probabilities ELSE {0}) :
          IF crash
            THEN /\ pc' = "crashed"
                 /\ UNCHANGED locals
            ELSE /\ selK0ShortIndices' =
                      [selK0ShortIndices EXCEPT ![localIndex(v0, v0TableOffset)] =
                         IF ml.useK0ShortScores
                           THEN passK0ShortSelections(v0, collision,
                                                      k0shortProbability, cfg)
                           ELSE isV0SelectedMC(v0, collision, FALSE, cfg)]
                 /\ selGammaIndices' =
                      [selGammaIndices EXCEPT ![localIndex(v0, v0TableOffset)] =
                         IF ml.useGammaScores
                           THEN passGammaSelections(v0, collision,
                                                    gammaProbability, cfg)
                           ELSE isV0SelectedMC(v0, collision, TRUE, cfg)]
                 /\ evalOutputs' = [evalOutputs EXCEPT ![iV0] =
                                      <<k0shortProbability, gammaProbability>>]
                 /\ calls' = calls \o candidateCalls(v0, cfg)
                 /\ iV0' = iV0 + 1
                 /\ pc' = IF iV0 = Len(fullV0s) THEN "pairsMC" ELSE "classifyMC"
                 /\ UNCHANGED << collision, fullV0s, v0TableOffset, pairCalls,
                                 h3dMassK0sGamma >>
  /\ UNCHANGED << cfg, mRunNumber, mlModels >>
  /\ UNCHANGED << history, readv0sVars >>

\* fills of h3dMassK0sGamma made by a sequence of analyseV0PairCandidate
\* calls on the tables of processMonteCarlo
RECURSIVE fillsOfMC(_, _, _)
fillsOfMC(table, pairs, config) ==
  IF pairs = << >> THEN << >>
  ELSE LET k0short == rowOf(table, Head(pairs)[1])
           gamma == rowOf(table, Head(pairs)[2])
           rest == fillsOfMC(table, Tail(pairs), config)
       IN IF pairReachesFillMC(k0short, gamma, config)
            THEN << <<k0short.globalIndex, gamma.globalIndex,
                      pairRapidity(k0short, gamma)>> >> \o rest
            ELSE rest

\* the counting of the masks and the pair building (lines 1260-1273)
CountAndBuildPairsMC ==
  /\ pc = "pairsMC"
  /\ LET nK0Shorts == countTrue(selK0ShortIndices)
         nGammas == countTrue(selGammaIndices)
         built == IF nK0Shorts >= 1 /\ nGammas >= 1
                    THEN buildV0V0Pairs(fullV0s, v0TableOffset,
                                        selK0ShortIndices, selGammaIndices)
                    ELSE << >>
     IN /\ pairCalls' = built
        /\ h3dMassK0sGamma' = fillsOfMC(fullV0s, built, cfg)
  /\ pc' = "done"
  /\ UNCHANGED << cfg, mRunNumber, mlModels, collision, fullV0s, v0TableOffset,
                  selK0ShortIndices, selGammaIndices, iV0, evalOutputs, calls >>
  /\ UNCHANGED << history, readv0sVars >>

\* results of ccdbApi.retrieveBlob that matter under the configuration
Retrievals ==
  IF cfg.mlConfigurations.loadCustomModelsFromCCDB
    THEN { r \in [ModelNames -> BOOLEAN] :
             \A m \in ModelNames : ~calculates(cfg, m) => r[m] }
    ELSE { [m \in ModelNames |-> TRUE] }

\* ------------------------------------------------------------------------
\* Specification of the pairing scenarios
\* ------------------------------------------------------------------------
InitPairs == InitWith(PairConfigs)

NextPairs ==
  \/ /\ pc = "idle"
     /\ nCollisions = 0   \* the first collision of the job
     /\ \E rows \in Batches(PairKinds, MaxV0s), offset \in PairOffsets,
           retrieved \in Retrievals :
          ProcessRealData(BaseCollision, rows, offset, retrieved)
  \/ AnalyseV0Candidate
  \/ CountAndBuildPairs
  \/ ProcessReturn

SpecPairs == InitPairs /\ [][NextPairs]_vars

\* ------------------------------------------------------------------------
\* Specification of the selection scenarios
\* ------------------------------------------------------------------------
InitSel == InitWith(SelConfigs)

NextSel ==
  \/ /\ pc = "idle"
     /\ nCollisions = 0   \* the first collision of the job
     /\ \E rows \in Batches(SelV0s, MaxSelV0s), offset \in SelOffsets,
           retrieved \in Retrievals :
          ProcessRealData(BaseCollision, rows, offset, retrieved)
  \/ AnalyseV0Candidate
  \/ CountAndBuildPairs
  \/ ProcessReturn

SpecSel == InitSel /\ [][NextSel]_vars

\* ------------------------------------------------------------------------
\* Specification of the cut scenarios
\* ------------------------------------------------------------------------
InitCuts == InitWith(CutConfigs)

NextCuts ==
  \/ /\ pc = "idle"
     /\ nCollisions = 0   \* the first collision of the job
     /\ \E rows \in Batches(CutV0s, MaxCutV0s), offset \in CutOffsets,
           retrieved \in Retrievals :
          ProcessRealData(BaseCollision, rows, offset, retrieved)
  \/ AnalyseV0Candidate
  \/ CountAndBuildPairs
  \/ ProcessReturn

SpecCuts == InitCuts /\ [][NextCuts]_vars

\* ------------------------------------------------------------------------
\* Specification of the topology scenarios
\* ------------------------------------------------------------------------
InitTopo == InitWith(TopoConfigs)

NextTopo ==
  \/ /\ pc = "idle"
     /\ nCollisions = 0   \* the first collision of the job
     /\ \E rows \in Batches(TopoV0s, MaxTopoV0s), offset \in TopoOffsets,
           retrieved \in Retrievals :
          ProcessRealData(BaseCollision, rows, offset, retrieved)
  \/ AnalyseV0Candidate
  \/ CountAndBuildPairs
  \/ ProcessReturn

SpecTopo == InitTopo /\ [][NextTopo]_vars

\* ------------------------------------------------------------------------
\* readv0s: the two process functions
\* ------------------------------------------------------------------------
\* processOriginal (lines 85-101)
ProcessOriginal(v0tables) ==
  /\ hV0s' = v0Loop(hV0s, v0tables, 1)
  /\ lastReadV0s' = [process |-> "processOriginal", table |-> v0tables]
  /\ UNCHANGED kstarVars

\* processDerived (lines 103-119)
ProcessDerived(v0tables) ==
  /\ hV0s' = v0Loop(hV0s, v0tables, 1)
  /\ lastReadV0s' = [process |-> "processDerived", table |-> v0tables]
  /\ UNCHANGED kstarVars

InitReadV0s == InitWith({DefaultConfig}) /\ mRunNumber = 0

\* a job of at most MaxReadV0s V0s in tables of at most MaxTableV0s
NextReadV0s ==
  \E v0tables \in Batches(ReadV0Kinds, MaxTableV0s) :
    /\ hV0s[BinAll] + Len(v0tables) <= MaxReadV0s
    /\ \/ ProcessOriginal(v0tables)
       \/ ProcessDerived(v0tables)

SpecReadV0s == InitReadV0s /\ [][NextReadV0s]_vars

\* ------------------------------------------------------------------------
\* Specification of the Monte Carlo scenarios
\* ------------------------------------------------------------------------
InitMC == InitWith(MCConfigs)

NextMC ==
  \/ /\ pc = "idle"
     /\ nCollisions = 0   \* the first collision of the job
     /\ \E rows \in Batches(MCV0s, MaxMCV0s), offset \in MCOffsets,
           retrieved \in Retrievals :
          ProcessMonteCarlo(BaseCollision, rows, offset, retrieved)
  \/ AnalyseV0CandidateMC
  \/ CountAndBuildPairsMC
  \/ ProcessReturn

SpecMC == InitMC /\ [][NextMC]_vars

\* ------------------------------------------------------------------------
\* Specification of the run scenarios: MaxCollisions collisions per job
\* ------------------------------------------------------------------------
InitRuns == InitWith(RunConfigs)

NextRuns ==
  \/ /\ pc = "idle"
     /\ nCollisions < MaxCollisions
     /\ \E coll \in RunCollisions, rows \in Batches(RunV0s, MaxRunV0s),
           offset \in RunOffsets, retrieved \in Retrievals :
          ProcessRealData(coll, rows, offset, retrieved)
  \/ AnalyseV0Candidate
  \/ CountAndBuildPairs
  \/ ProcessReturn

SpecRuns == InitRuns /\ [][NextRuns]_vars

\* ------------------------------------------------------------------------
\* Properties
\* ------------------------------------------------------------------------
\* rows of the current collision whose bits analyseV0Candidate has written
classified == { i \in 1..Len(fullV0s) :
                  pc \in {"pairs", "done"} \/ (pc = "classify" /\ i < iV0) }

\* TRUE when two candidates have a daughter-track reference in common
shareDaughter(a, b) ==
  {a.posTrackExtraId, a.negTrackExtraId}
    \cap {b.posTrackExtraId, b.negTrackExtraId} # {}

\* the emitted pairs as a set
emitted == { pairCalls[k] : k \in 1..Len(pairCalls) }

\* C1: buildV0V0Pairs never hands over a pair made of one candidate twice,
\* nor a pair in which one of the four daughter-reference comparisons
\* (pos/pos, pos/neg, neg/pos, neg/neg) is an equality.
C1_NoSelfNoSharedDaughter ==
  \A k \in 1..Len(pairCalls) :
    LET k0short == rowOf(fullV0s, pairCalls[k][1])
        gamma == rowOf(fullV0s, pairCalls[k][2])
    IN /\ k0short.globalIndex # gamma.globalIndex
       /\ k0short.posTrackExtraId # gamma.posTrackExtraId
       /\ k0short.posTrackExtraId # gamma.negTrackExtraId
       /\ k0short.negTrackExtraId # gamma.posTrackExtraId
       /\ k0short.negTrackExtraId # gamma.negTrackExtraId

\* C1 witness: pairs were emitted for a batch in which two distinct selected
\* candidates have only their negative daughter in common
C1_Witness ==
  /\ pc = "done"
  /\ pairCalls # << >>
  /\ \E i, j \in 1..Len(fullV0s) :
       /\ i # j
       /\ selK0ShortIndices[i] /\ selGammaIndices[j]
       /\ fullV0s[i].negTrackExtraId = fullV0s[j].negTrackExtraId
       /\ fullV0s[i].posTrackExtraId # fullV0s[j].posTrackExtraId
       /\ fullV0s[i].posTrackExtraId # fullV0s[j].negTrackExtraId
       /\ fullV0s[i].negTrackExtraId # fullV0s[j].posTrackExtraId

\* the pairs the specification asks for, from the masks and the batch
validPairs ==
  { <<a.globalIndex, b.globalIndex>> :
      a \in { fullV0s[i] : i \in { n \in 1..Len(fullV0s) : selK0ShortIndices[n] } },
      b \in { fullV0s[j] : j \in { n \in 1..Len(fullV0s) : selGammaIndices[n] } } }

expectedPairs ==
  { pr \in validPairs :
      /\ pr[1] # pr[2]
      /\ ~shareDaughter(rowOf(fullV0s, pr[1]), rowOf(fullV0s, pr[2])) }

\* the three-candidate scenario of the specification: 1 K0-short only,
\* 2 photon only, 3 both, daughters of 3 overlap those of 1 only
threeCandidateScenario ==
  /\ Len(fullV0s) = 3
  /\ selK0ShortIndices = <<TRUE, FALSE, TRUE>>
  /\ selGammaIndices = <<FALSE, TRUE, TRUE>>
  /\ ~shareDaughter(fullV0s[1], fullV0s[2])
  /\ shareDaughter(fullV0s[3], fullV0s[1])
  /\ ~shareDaughter(fullV0s[3], fullV0s[2])

\* C2: once a collision is processed, the emitted pairs are exactly the
\* pairs (a, b) with a in the K0-short mask, b in the photon mask, a # b and
\* no common daughter, each emitted once; in the three-candidate scenario
\* they are (1,2) and (3,2).
C2_ExactlyTheValidPairsOnce ==
  pc = "done" =>
    /\ emitted = expectedPairs
    /\ Len(pairCalls) = Cardinality(expectedPairs)
    /\ threeCandidateScenario =>
         emitted = { <<v0TableOffset, v0TableOffset + 1>>,
                     <<v0TableOffset + 2, v0TableOffset + 1>> }

\* C2 witness: the three-candidate scenario, processed, at a non-zero offset
C2_Witness ==
  /\ pc = "done"
  /\ threeCandidateScenario
  /\ v0TableOffset > 0
  /\ pairCalls = << <<v0TableOffset, v0TableOffset + 1>>,
                    <<v0TableOffset + 2, v0TableOffset + 1>> >>

\* C3: in every emitted pair the first candidate passes the K0-short
\* selection and the second the photon selection, as computed for that very
\* candidate of that collision.
C3_PairMembersPassTheirSelection ==
  \A k \in 1..Len(pairCalls) :
    LET k0short == rowOf(fullV0s, pairCalls[k][1])
        gamma == rowOf(fullV0s, pairCalls[k][2])
        ik == CHOOSE i \in 1..Len(fullV0s) : fullV0s[i] = k0short
        ig == CHOOSE i \in 1..Len(fullV0s) : fullV0s[i] = gamma
    IN /\ passK0ShortSelections(k0short, collision, evalOutputs[ik][1], cfg)
       /\ passGammaSelections(gamma, collision, evalOutputs[ig][2], cfg)

\* C3 witness: a pair was emitted from a batch that also holds a candidate
\* failing the photon selection and one failing the K0-short selection,
\* in a table that does not start at row 0
C3_Witness ==
  /\ pc = "done"
  /\ pairCalls # << >>
  /\ v0TableOffset > 0
  /\ \E i \in 1..Len(fullV0s) : ~selGammaIndices[i] /\ selK0ShortIndices[i]
  /\ \E i \in 1..Len(fullV0s) : ~selK0ShortIndices[i] /\ selGammaIndices[i]

\* C4 (as claimed): every pair that reaches the fill of h3dMassK0sGamma in
\* processRealData has |y| <= rapidityCut, whatever doMCAssociation is.
C4_ReportedPairsInsideRapidityWindow ==
  \A k \in 1..Len(h3dMassK0sGamma) :
    ~FGt(FAbs(h3dMassK0sGamma[k][3]), cfg.rapidityCut)

\* the calls made so far for the current collision, as a set
callSet == { calls[k] : k \in 1..Len(calls) }

\* a candidate of the selection scenarios placed on the row of v0
onRowOf(w, v0) == [w EXCEPT !.globalIndex = v0.globalIndex]

\* TRUE when w and v0 agree on every column but the ML scores
sameButScores(w, v0) ==
  [w EXCEPT !.k0ShortBDTScore = v0.k0ShortBDTScore,
            !.antiLambdaBDTScore = v0.antiLambdaBDTScore,
            !.lambdaBDTScore = v0.lambdaBDTScore,
            !.globalIndex = v0.globalIndex] = v0

\* TRUE when w and v0 agree on every ML score
sameScores(w, v0) ==
  /\ w.k0ShortBDTScore = v0.k0ShortBDTScore
  /\ w.antiLambdaBDTScore = v0.antiLambdaBDTScore
  /\ w.lambdaBDTScore = v0.lambdaBDTScore

\* TRUE when no cut of the list other than cut number skip rejects (cuts
\* are numbered from 1: skip = 0 leaves none out)
othersPass(rejects, skip) ==
  \A k \in (DOMAIN rejects) \ {skip} : ~rejects[k]

\* C5: in score-based mode the bit of a category is (score > threshold),
\* strictly, where score is the value analyseV0Candidate obtains for the
\* category (calculated, or read from the derived data); isV0Selected is
\* not called for the category, and any candidate with the same scores gets
\* the same bit whatever its other columns.
C5_ScoreModeIsStrictThreshold ==
  \A i \in classified :
    LET v0 == fullV0s[i]
        ml == cfg.mlConfigurations
        k0shortScore == IF ml.calculateK0ShortScores THEN evalOutputs[i][1]
                        ELSE v0.k0ShortBDTScore
        gammaScore == IF ml.calculateGammaScores THEN evalOutputs[i][2]
                      ELSE v0.antiLambdaBDTScore
    IN /\ ml.useK0ShortScores =>
            /\ selK0ShortIndices[i] = (k0shortScore > ml.thresholdK0Short)
            /\ <<"isV0Selected", "K0Short", v0.globalIndex>> \notin callSet
            /\ \A w \in SelV0s :
                 sameScores(w, v0) =>
                   passK0ShortSelections(onRowOf(w, v0), collision,
                                         evalOutputs[i][1], cfg)
                     = selK0ShortIndices[i]
       /\ ml.useGammaScores =>
            /\ selGammaIndices[i] = (gammaScore > ml.thresholdGamma)
            /\ <<"isV0Selected", "Gamma", v0.globalIndex>> \notin callSet
            /\ \A w \in SelV0s :
                 sameScores(w, v0) =>
                   passGammaSelections(onRowOf(w, v0), collision,
                                       evalOutputs[i][2], cfg)
                     = selGammaIndices[i]

\* C5 witness: score-based K0-short mode, a candidate that passes every
\* K0-short cut, whose score equals the threshold: its bit is false
C5_Witness ==
  \E i \in classified :
    /\ cfg.mlConfigurations.useK0ShortScores
    /\ ~cfg.mlConfigurations.calculateK0ShortScores
    /\ fullV0s[i].k0ShortBDTScore = cfg.mlConfigurations.thresholdK0Short
    /\ isV0Selected(fullV0s[i], collision, FALSE, cfg)
    /\ ~selK0ShortIndices[i]

\* C6 (as claimed): with precomputed scores, the bit of a category does not
\* change when only scores of other categories change (the candidates carry
\* K0-short, Lambda and anti-Lambda scores).
C6_OtherCategoryScoresDoNotMatter ==
  \A i \in classified :
    LET v0 == fullV0s[i]
        ml == cfg.mlConfigurations
    IN /\ (ml.useGammaScores /\ ~ml.calculateGammaScores) =>
            \A w \in SelV0s :
              sameButScores(w, v0) =>
                passGammaSelections(onRowOf(w, v0), collision,
                                    evalOutputs[i][2], cfg)
                  = selGammaIndices[i]
       /\ (ml.useK0ShortScores /\ ~ml.calculateK0ShortScores) =>
            \A w \in SelV0s :
              (sameButScores(w, v0)
                 /\ w.k0ShortBDTScore = v0.k0ShortBDTScore) =>
                passK0ShortSelections(onRowOf(w, v0), collision,
                                      evalOutputs[i][1], cfg)
                  = selK0ShortIndices[i]

\* TRUE when c2 and config differ at most in the ML thresholds, calculate*
\* flags and the score mode of the other category
sameButMl(c2, config) ==
  [c2 EXCEPT !.mlConfigurations = config.mlConfigurations] = config

\* C7: when the score-based mode of a category is off, its bit is the
\* result of the cuts of isV0Selected; no model is evaluated for it; and the
\* bit is the same under any ML score, ML threshold and calculate* flag.
C7_CutModeIgnoresMl ==
  \A i \in classified :
    LET v0 == fullV0s[i]
        ml == cfg.mlConfigurations
    IN /\ ~ml.useK0ShortScores =>
            /\ selK0ShortIndices[i] =
                 othersPass(k0ShortRejects(v0, collision, cfg), 0)
            /\ <<"evalModel", "K0Short", v0.globalIndex>> \notin callSet
            /\ <<"isV0Selected", "K0Short", v0.globalIndex>> \in callSet
            /\ \A c2 \in { c \in SelConfigs :
                             /\ sameButMl(c, cfg)
                             /\ ~c.mlConfigurations.useK0ShortScores },
                  w \in { x \in SelV0s : sameButScores(x, v0) } :
                 passK0ShortSelections(onRowOf(w, v0), collision,
                                       evalOutputs[i][1], c2)
                   = selK0ShortIndices[i]
       /\ ~ml.useGammaScores =>
            /\ selGammaIndices[i] =
                 othersPass(photonRejects(v0, cfg), 0)
            /\ <<"evalModel", "Gamma", v0.globalIndex>> \notin callSet
            /\ <<"isV0Selected", "Gamma", v0.globalIndex>> \in callSet
            /\ \A c2 \in { c \in SelConfigs :
                             /\ sameButMl(c, cfg)
                             /\ ~c.mlConfigurations.useGammaScores },
                  w \in { x \in SelV0s : sameButScores(x, v0) } :
                 passGammaSelections(onRowOf(w, v0), collision,
                                     evalOutputs[i][2], c2)
                   = selGammaIndices[i]

\* C7 witness: both calculate* flags set, no score-based mode, a candidate
\* rejected by the photon cuts and accepted by the K0-short cuts
C7_Witness ==
  \E i \in classified :
    /\ cfg.mlConfigurations.calculateK0ShortScores
    /\ cfg.mlConfigurations.calculateGammaScores
    /\ ~cfg.mlConfigurations.useK0ShortScores
    /\ ~cfg.mlConfigurations.useGammaScores
    /\ selK0ShortIndices[i]
    /\ ~selGammaIndices[i]
    /\ pc = "done"

\* C8 (as claimed): the K0-short-like cut result does not change when only
\* photonSelections thresholds change, and the photon-like cut result does
\* not change when only v0Selections thresholds change.
C8_CutSetsAreSeparate ==
  \A i \in classified :
    LET v0 == fullV0s[i]
        ml == cfg.mlConfigurations
    IN /\ ~ml.useK0ShortScores =>
            \A c2 \in SelConfigs :
              [c2 EXCEPT !.photonSelections = cfg.photonSelections] = cfg =>
                isV0Selected(v0, collision, FALSE, c2) = selK0ShortIndices[i]
       /\ ~ml.useGammaScores =>
            \A c2 \in SelConfigs :
              [c2 EXCEPT !.v0Selections = cfg.v0Selections] = cfg =>
                isV0Selected(v0, collision, TRUE, c2) = selGammaIndices[i]

\* |mK0Short - MassK0Short| of a candidate
k0ShortMassDistance(v0) == FAbs(FSub(v0.mK0Short, MassK0Short))

\* C9 (as claimed): in the cut-based K0-short selection a candidate with
\* |mK0Short - MassK0Short| equal to v0MassWindow is rejected, and one
\* strictly inside the window is not rejected by this cut.
C9_EdgeOfMassWindowRejected ==
  \A i \in classified :
    LET v0 == fullV0s[i]
        window == cfg.v0Selections.v0MassWindow
    IN ~cfg.mlConfigurations.useK0ShortScores =>
         /\ k0ShortMassDistance(v0) = window => ~selK0ShortIndices[i]
         /\ (FLt(k0ShortMassDistance(v0), window)
               /\ othersPass(k0ShortRejects(v0, collision, cfg),
                             K0ShortMassWindowCut))
              => selK0ShortIndices[i]

\* C9 (amended): in the cut-based K0-short selection a candidate with
\* |mK0Short - MassK0Short| strictly above v0MassWindow is rejected, and one
\* inside the window or exactly on its edge is not rejected by this cut.
C9_MassWindowIsInclusive ==
  \A i \in classified :
    LET v0 == fullV0s[i]
        window == cfg.v0Selections.v0MassWindow
    IN ~cfg.mlConfigurations.useK0ShortScores =>
         /\ FGt(k0ShortMassDistance(v0), window) => ~selK0ShortIndices[i]
         /\ (~FGt(k0ShortMassDistance(v0), window)
               /\ othersPass(k0ShortRejects(v0, collision, cfg),
                             K0ShortMassWindowCut))
              => selK0ShortIndices[i]

\* C9 witness: a candidate exactly on the edge of the window is selected
C9_Witness ==
  \E i \in classified :
    /\ ~cfg.mlConfigurations.useK0ShortScores
    /\ k0ShortMassDistance(fullV0s[i]) = cfg.v0Selections.v0MassWindow
    /\ selK0ShortIndices[i]

\* C10: in the cut-based selection of both categories a candidate with
\* v0cosPA below the configured minimum is rejected, and one with v0cosPA
\* equal to the minimum is not rejected by the pointing-angle cut.
C10_PointingAngleMinimumIsInclusive ==
  \A i \in classified :
    LET v0 == fullV0s[i]
        ml == cfg.mlConfigurations
    IN /\ ~ml.useK0ShortScores =>
            /\ FLt(v0.v0cosPA, cfg.v0Selections.v0cospa)
                 => ~selK0ShortIndices[i]
            /\ (v0.v0cosPA = cfg.v0Selections.v0cospa
                  /\ othersPass(k0ShortRejects(v0, collision, cfg),
                                K0ShortCosPACut))
                 => selK0ShortIndices[i]
       /\ ~ml.useGammaScores =>
            /\ FLt(v0.v0cosPA, cfg.photonSelections.v0cospa)
                 => ~selGammaIndices[i]
            /\ (v0.v0cosPA = cfg.photonSelections.v0cospa
                  /\ othersPass(photonRejects(v0, cfg), PhotonCosPACut))
                 => selGammaIndices[i]

\* C10 witness: a candidate with v0cosPA equal to both minima carries both
\* bits
C10_Witness ==
  \E i \in classified :
    /\ ~cfg.mlConfigurations.useK0ShortScores
    /\ ~cfg.mlConfigurations.useGammaScores
    /\ fullV0s[i].v0cosPA = cfg.v0Selections.v0cospa
    /\ fullV0s[i].v0cosPA = cfg.photonSelections.v0cospa
    /\ selK0ShortIndices[i]
    /\ selGammaIndices[i]

\* qt * k and |alpha| of the Armenteros cut, on the same scale
armPodLeft(v0, k) == FMul(v0.qtarm, k)
armPodRight(v0) == FMul(FAbs(v0.alpha), ArmPodScale)

\* C11 (as claimed): when the Armenteros cut is applied, a candidate that
\* carries the bit of a category has qt * k > |alpha| strictly (qt, alpha
\* not NaN).
C11_ArmenterosPassIsStrict ==
  \A i \in classified :
    LET v0 == fullV0s[i]
        kK0 == cfg.v0Selections.armPodCut
        kGamma == cfg.photonSelections.armPodCut
    IN (v0.qtarm # NaN /\ v0.alpha # NaN) =>
         /\ (~cfg.mlConfigurations.useK0ShortScores
               /\ FGt(kK0, ArmPodEps) /\ selK0ShortIndices[i])
              => FGt(armPodLeft(v0, kK0), armPodRight(v0))
         /\ (~cfg.mlConfigurations.useGammaScores
               /\ FGt(kGamma, ArmPodEps) /\ selGammaIndices[i])
              => FGt(armPodLeft(v0, kGamma), armPodRight(v0))

\* C12 (as claimed): for every slope k > 0 a candidate with qt * k below
\* |alpha| does not carry the bit of the category, and for every k <= 0 a
\* candidate that passes the other cuts of the category carries it.
C12_ArmenterosSkippedIffSlopeNotPositive ==
  \A i \in classified :
    LET v0 == fullV0s[i]
        kK0 == cfg.v0Selections.armPodCut
        kGamma == cfg.photonSelections.armPodCut
    IN /\ ~cfg.mlConfigurations.useK0ShortScores =>
            /\ (kK0 > 0 /\ FLt(armPodLeft(v0, kK0), armPodRight(v0)))
                 => ~selK0ShortIndices[i]
            /\ (kK0 <= 0
                  /\ othersPass(k0ShortRejects(v0, collision, cfg),
                                K0ShortArmPodCut))
                 => selK0ShortIndices[i]
       /\ ~cfg.mlConfigurations.useGammaScores =>
            /\ (kGamma > 0 /\ FLt(armPodLeft(v0, kGamma), armPodRight(v0)))
                 => ~selGammaIndices[i]
            /\ (kGamma <= 0
                  /\ othersPass(photonRejects(v0, cfg), PhotonArmPodCut))
                 => selGammaIndices[i]

\* TRUE when w and v0 agree on every column but the K0-short and Lambda
\* hypothesis masses
sameButOtherMasses(w, v0) ==
  [w EXCEPT !.mLambda = v0.mLambda, !.mK0Short = v0.mK0Short,
            !.globalIndex = v0.globalIndex] = v0

\* C13: the competing mass rejection belongs to the K0-short category only:
\* a candidate with |mLambda - MassLambda0| < compMassRejection does not
\* carry the K0-short bit, and the photon cut result of a candidate is the
\* same for every value of its Lambda and K0-short hypothesis masses.
C13_CompetingMassVetoOnlyForK0Short ==
  \A i \in classified :
    LET v0 == fullV0s[i]
    IN /\ ~cfg.mlConfigurations.useK0ShortScores =>
            (FLt(FAbs(FSub(v0.mLambda, MassLambda0)),
                 cfg.v0Selections.compMassRejection)
               => ~selK0ShortIndices[i])
       /\ ~cfg.mlConfigurations.useGammaScores =>
            \A w \in { x \in CutV0s : sameButOtherMasses(x, v0) } :
              isV0Selected(onRowOf(w, v0), collision, TRUE, cfg)
                = selGammaIndices[i]

\* C13 witness: a candidate inside the competing mass rejection, passing
\* every other K0-short cut, is rejected as K0-short and kept as photon
C13_Witness ==
  \E i \in classified :
    /\ ~cfg.mlConfigurations.useK0ShortScores
    /\ ~cfg.mlConfigurations.useGammaScores
    /\ k0ShortCompetingMassReject(fullV0s[i], cfg.v0Selections)
    /\ othersPass(k0ShortRejects(fullV0s[i], collision, cfg),
                  K0ShortCompetingMassCut)
    /\ ~selK0ShortIndices[i]
    /\ selGammaIndices[i]

\* TRUE when a float column read by the K0-short cuts holds NaN
k0ShortCutReadsNaN(v0) ==
  NaN \in { v0.negativeeta, v0.positiveeta, v0.v0radius, v0.dcapostopv,
            v0.dcanegtopv, v0.v0cosPA, v0.dcaV0daughters, v0.dcav0topv,
            v0.mK0Short, v0.mLambda, v0.posTrackExtra.tpcNSigmaPi,
            v0.negTrackExtra.tpcNSigmaPi, v0.distovertotmom, v0.qtarm,
            v0.alpha }

\* TRUE when a float column read by the photon cuts holds NaN
photonCutReadsNaN(v0) ==
  NaN \in { v0.z, v0.negativeeta, v0.positiveeta, v0.v0radius,
            v0.dcapostopv, v0.dcanegtopv, v0.v0cosPA, v0.dcaV0daughters,
            v0.dcav0topv, v0.mGamma, v0.posTrackExtra.tpcNSigmaEl,
            v0.negTrackExtra.tpcNSigmaEl, v0.qtarm, v0.alpha }

\* C16 (as claimed): a candidate with NaN in a column read by the cuts of
\* a category does not carry the bit of that category.
C16_NaNIsRejected ==
  \A i \in classified :
    LET v0 == fullV0s[i]
    IN /\ (~cfg.mlConfigurations.useK0ShortScores /\ k0ShortCutReadsNaN(v0))
            => ~selK0ShortIndices[i]
       /\ (~cfg.mlConfigurations.useGammaScores /\ photonCutReadsNaN(v0))
            => ~selGammaIndices[i]

\* orders in which the n cuts of a list are tested: the n rotations of the
\* source order and their reverses
testOrders(n) ==
  { [k \in 1..n |-> ((k + r - 1) % n) + 1] : r \in 0..(n - 1) }
    \cup { [k \in 1..n |-> n - ((k + r - 1) % n)] : r \in 0..(n - 1) }

\* the short-circuiting test of the cuts in the given order
RECURSIVE passesInOrder(_, _, _)
passesInOrder(rejects, order, k) ==
  IF k > Len(order) THEN TRUE
  ELSE IF rejects[order[k]] THEN FALSE
  ELSE passesInOrder(rejects, order, k + 1)

\* C17: the cut-based result of a category is the conjunction of its cuts,
\* each evaluated on its own, and testing the cuts in another order with
\* the same short-circuit gives the same result.
C17_ResultIsTheConjunctionOfTheCuts ==
  \A i \in classified :
    LET v0 == fullV0s[i]
        k0 == k0ShortRejects(v0, collision, cfg)
        ph == photonRejects(v0, cfg)
    IN /\ ~cfg.mlConfigurations.useK0ShortScores =>
            /\ selK0ShortIndices[i] = (\A k \in DOMAIN k0 : ~k0[k])
            /\ \A order \in testOrders(Len(k0)) :
                 passesInOrder(k0, order, 1) = selK0ShortIndices[i]
       /\ ~cfg.mlConfigurations.useGammaScores =>
            /\ selGammaIndices[i] = (\A k \in DOMAIN ph : ~ph[k])
            /\ \A order \in testOrders(Len(ph)) :
                 passesInOrder(ph, order, 1) = selGammaIndices[i]

\* C17 witness: a candidate that fails three K0-short cuts and three photon
\* cuts, among them the last of each list, has been classified
C17_Witness ==
  \E i \in classified :
    LET k0 == k0ShortRejects(fullV0s[i], collision, cfg)
        ph == photonRejects(fullV0s[i], cfg)
    IN /\ ~cfg.mlConfigurations.useK0ShortScores
       /\ ~cfg.mlConfigurations.useGammaScores
       /\ Cardinality({ k \in DOMAIN k0 : k0[k] }) >= 3
       /\ Cardinality({ k \in DOMAIN ph : ph[k] }) >= 3
       /\ k0[K0ShortArmPodCut] /\ ph[PhotonArmPodCut]
       /\ ~selK0ShortIndices[i] /\ ~selGammaIndices[i]

\* rows of the current collision set in the K0-short / photon mask
inK0ShortMask == { i \in 1..Len(fullV0s) : selK0ShortIndices[i] }
inGammaMask == { i \in 1..Len(fullV0s) : selGammaIndices[i] }

\* global index of the candidate on row i
globalIndexOfRow(i) == fullV0s[i].globalIndex

\* C14: the roles of a pair are those of the masks: the first member of an
\* emitted pair is set in the K0-short mask and the second in the photon
\* mask, so the reverse of an emitted pair is emitted only when the bits of
\* the swapped roles are set too; a candidate set only in the K0-short mask
\* is never second, one set only in the photon mask is never first.
C14_RolesAreNeverSwapped ==
  \A i, j \in 1..Len(fullV0s) :
    LET a == globalIndexOfRow(i)
        b == globalIndexOfRow(j)
    IN /\ <<a, b>> \in emitted => (i \in inK0ShortMask /\ j \in inGammaMask)
       /\ (<<a, b>> \in emitted /\ <<b, a>> \in emitted)
            => (j \in inK0ShortMask /\ i \in inGammaMask)
       /\ (i \in inK0ShortMask \ inGammaMask)
            => \A k \in 1..Len(pairCalls) : pairCalls[k][2] # a
       /\ (i \in inGammaMask \ inK0ShortMask)
            => \A k \in 1..Len(pairCalls) : pairCalls[k][1] # a

\* C14 witness: a pair of a K0-short-only and a photon-only candidate
\* without common daughter is emitted and its reverse is not
C14_Witness ==
  /\ pc = "done"
  /\ \E i \in inK0ShortMask \ inGammaMask, j \in inGammaMask \ inK0ShortMask :
       /\ ~shareDaughter(fullV0s[i], fullV0s[j])
       /\ <<globalIndexOfRow(i), globalIndexOfRow(j)>> \in emitted
       /\ <<globalIndexOfRow(j), globalIndexOfRow(i)>> \notin emitted

\* TRUE when no two distinct candidates of the batch share a daughter
noSharedDaughters ==
  \A i, j \in 1..Len(fullV0s) :
    i # j => ~shareDaughter(fullV0s[i], fullV0s[j])

\* C15: for a batch without shared daughters the number of emitted pairs is
\* |K0-short mask| * |photon mask| - |candidates set in both masks|.
C15_PairCountWithoutSharedDaughters ==
  (pc = "done" /\ noSharedDaughters) =>
    Len(pairCalls) =
      Cardinality(inK0ShortMask) * Cardinality(inGammaMask)
        - Cardinality(inK0ShortMask \cap inGammaMask)

\* C15 witness: three candidates without shared daughters, two in each
\* mask, one of them in both: 2 * 2 - 1 = 3 pairs
C15_Witness ==
  /\ pc = "done"
  /\ noSharedDaughters
  /\ Len(fullV0s) = 3
  /\ Cardinality(inK0ShortMask) = 2
  /\ Cardinality(inGammaMask) = 2
  /\ Cardinality(inK0ShortMask \cap inGammaMask) = 1
  /\ Len(pairCalls) = 3

\* number of entries of calls for the category and the candidate on row i
callCount(category, i) ==
  Cardinality({ k \in 1..Len(calls) :
                  /\ calls[k][2] = category
                  /\ calls[k][3] = globalIndexOfRow(i) })

\* C18: a collision is processed in two phases: when the first call of
\* analyseV0PairCandidate is made every candidate of the batch has been
\* classified; each category is evaluated once per classified candidate and
\* not at all for the others; the step that counts and builds the pairs
\* evaluates no selection and leaves both masks as they are.
C18_ClassifyAllThenPair ==
  /\ [](/\ (pairCalls # << >> \/ h3dMassK0sGamma # << >>)
             => (pc = "done" /\ classified = 1..Len(fullV0s))
        /\ pc = "classify" => pairCalls = << >>
        /\ \A i \in 1..Len(fullV0s) :
             \A category \in {"K0Short", "Gamma"} :
               callCount(category, i) = (IF i \in classified THEN 1 ELSE 0)
        /\ Len(calls) = 2 * Cardinality(classified))
  /\ [][pc = "pairs" =>
          /\ selK0ShortIndices' = selK0ShortIndices
          /\ selGammaIndices' = selGammaIndices
          /\ calls' = calls]_vars

\* C18 witness: three candidates, six evaluations, and pairs handed over
C18_Witness ==
  /\ pc = "done"
  /\ Len(fullV0s) = 3
  /\ Len(calls) = 6
  /\ Len(pairCalls) >= 2

\* a mask of n entries, all false
freshMask(n) == [i \in 1..n |-> FALSE]

C21_DcaNegToPVIsAMinimum ==
  \A i \in classified :
    LET v0 == fullV0s[i]
        ml == cfg.mlConfigurations
    IN /\ ~ml.useK0ShortScores =>
            /\ FLt(FAbs(v0.dcanegtopv), cfg.v0Selections.dcanegtopv)
                 => ~selK0ShortIndices[i]
            /\ (FGe(FAbs(v0.dcanegtopv), cfg.v0Selections.dcanegtopv)
                  /\ othersPass(k0ShortRejects(v0, collision, cfg),
                                K0ShortDcaNegCut))
                 => selK0ShortIndices[i]
       /\ ~ml.useGammaScores =>
            /\ FLt(FAbs(v0.dcanegtopv), cfg.photonSelections.dcanegtopv)
                 => ~selGammaIndices[i]
            /\ (FGe(FAbs(v0.dcanegtopv), cfg.photonSelections.dcanegtopv)
                  /\ othersPass(photonRejects(v0, cfg), PhotonDcaNegCut))
                 => selGammaIndices[i]

\* C22 (as claimed): a candidate that carries the photon bit of the
\* cut-based selection has |z| <= photonZMax.
C22_PhotonConversionPointInsideOnBothSides ==
  \A i \in classified :
    (~cfg.mlConfigurations.useGammaScores /\ selGammaIndices[i]
       /\ fullV0s[i].z # NaN)
      => FAbs(fullV0s[i].z) <= cfg.photonSelections.photonZMax

\* ------------------------------------------------------------------------
\* a step in which processRealData is entered, and what its initCCDB did
enters == pc = "idle" /\ nCollisions' = nCollisions + 1
loads(config) == \E m \in ModelNames : calculates(config, m)
ranAgain == enters /\ lastInitCCDB'.called /\ lastInitCCDB'.again

\* models of ModelOrder whose retrieval fails in the call just made
failedLoads ==
  { k \in 1..Len(ModelOrder) :
      /\ calculates(cfg, ModelOrder[k])
      /\ ~lastInitCCDB'.retrieved[ModelOrder[k]] }

firstFailedLoad ==
  IF failedLoads = {} THEN Len(ModelOrder) + 1
  ELSE CHOOSE k \in failedLoads : \A j \in failedLoads : k <= j

\* C23: with loadCustomModelsFromCCDB, loadMachines raises a fatal error for
\* a category with its calculate flag set whose retrieval fails and leaves
\* that model as it was, and initialises exactly the model of a category
\* whose retrieval succeeds; the process is in the fatal state only after
\* such a failed retrieval, and never when no calculate flag is set.
C23_FatalOnlyOnFailedModelLoad ==
  /\ [](pc = "fatal" =>
          /\ lastInitCCDB.called /\ lastInitCCDB.again
          /\ cfg.mlConfigurations.loadCustomModelsFromCCDB
          /\ \E m \in ModelNames :
                calculates(cfg, m) /\ ~lastInitCCDB.retrieved[m])
  /\ [][(ranAgain /\ loads(cfg) /\ cfg.mlConfigurations.loadCustomModelsFromCCDB)
          => /\ (pc' = "fatal") <=> (failedLoads # {})
             /\ \A k \in 1..Len(ModelOrder) :
                  LET m == ModelOrder[k]
                  IN IF calculates(cfg, m) /\ k < firstFailedLoad
                       THEN mlModels'[m]
                       ELSE mlModels'[m] = mlModels[m]]_vars

\* K0Short retrieved and initialised, Gamma failed: fatal
C23_Witness ==
  /\ pc = "fatal"
  /\ lastInitCCDB.retrieved["K0Short"] /\ ~lastInitCCDB.retrieved["Gamma"]
  /\ mlModels["K0Short"] /\ ~mlModels["Gamma"]

\* ------------------------------------------------------------------------
\* C24: whenever analyseV0Candidate evaluates an ONNX model, that model has
\* been initialised by an earlier loadMachines; in particular the initCCDB
\* call of the first collision goes past the run-number gate whatever the
\* run number of the collision.
C24_EvaluatedModelsAreInitialised ==
  /\ pc # "crashed"
  /\ \A k \in 1..Len(calls) :
       calls[k][1] = "evalModel" => mlModels[calls[k][2]]
  /\ (nCollisions = 1 /\ firesCCDB(cfg)) => lastInitCCDB.again

\* ------------------------------------------------------------------------
\* C25: after every call of initCCDB mRunNumber is the run number of the
\* collision passed, whether or not isEventAccepted accepts it afterwards;
\* from the second call on, the call goes past the gate (CCDB/Zorro
\* initialisation, loadMachines) exactly when that run number differs from
\* the one of the previous collision, and otherwise leaves the models alone.
C25_RunNumberGate ==
  [][(enters /\ firesCCDB(cfg))
       => /\ lastInitCCDB'.called
          /\ mRunNumber' = collision'.runNumber
          /\ nCollisions > 0 =>
                (lastInitCCDB'.again <=> collision'.runNumber # collision.runNumber)
          /\ ~lastInitCCDB'.again => mlModels' = mlModels]_vars

\* a rejected collision of run 2 after an accepted one of another run: the
\* models were loaded again and mRunNumber follows
C25_Witness ==
  /\ pc = "idle" /\ nCollisions = 2 /\ nAccepted = 1
  /\ ~isEventAccepted(collision, cfg, TRUE).accepted
  /\ collision.runNumber = 2 /\ mRunNumber = 2
  /\ lastInitCCDB.called /\ lastInitCCDB.again
  /\ mlModels["K0Short"]

\* ------------------------------------------------------------------------
\* index of the first selection of isEventAccepted the collision fails, 0
\* when it fails none
firstFailedSelection(coll, config) == firstReject(eventRejects(coll, config), 1)

\* C26: a collision rejected by isEventAccepted produces no candidate-level
\* output: processRealData returns without classifying a candidate, writing
\* a mask, building a pair or filling a histogram other than
\* hEventSelection; and the value isEventAccepted returns is the same with
\* and without fillHists.
C26_RejectedCollisionLeavesNoTrace ==
  /\ [](\A coll \in RunCollisions :
          /\ isEventAccepted(coll, cfg, FALSE).accepted
                = isEventAccepted(coll, cfg, TRUE).accepted
          /\ isEventAccepted(coll, cfg, FALSE).fills = {})
  /\ [][(enters /\ pc' # "fatal" /\ firstFailedSelection(collision', cfg) # 0)
          => /\ pc' = "idle"
             /\ nAccepted' = nAccepted
             /\ UNCHANGED batch]_vars

\* the first collision of the job was rejected by the INEL>0 selection
C26_Witness ==
  /\ pc = "idle" /\ nCollisions = 1 /\ nAccepted = 0
  /\ firstFailedSelection(collision, cfg) = 17
  /\ hEventSelection[16] = 1 /\ hEventSelection[17] = 0
  /\ calls = << >> /\ selK0ShortIndices = << >> /\ h3dMassK0sGamma = << >>

\* ------------------------------------------------------------------------
\* bins of hEventSelection a collision must fill: 0 and the selections
\* before the first one it fails
prefixBins(coll, config) ==
  LET failed == firstFailedSelection(coll, config)
  IN IF failed = 0 THEN 0..Len(eventRejects(coll, config)) ELSE 0..(failed - 1)

\* C27: while the job runs, the bins 0..18 of hEventSelection are
\* non-increasing, bin 0 counts the collisions seen and bin 18 the accepted
\* ones; each collision fills exactly the bins 0..k, once each, where k + 1
\* is the first selection it fails (all of 0..18 when it is accepted).
C27_EventCutFlow ==
  /\ [](pc # "fatal" =>
          /\ \A b \in 0..17 : hEventSelection[b] >= hEventSelection[b + 1]
          /\ hEventSelection[0] = nCollisions
          /\ hEventSelection[18] = nAccepted
          /\ hEventSelection[19] = 0)
  /\ [][(enters /\ pc' # "fatal")
          => \A b \in EventSelectionBins :
               hEventSelection'[b] =
                 IF b \in prefixBins(collision', cfg)
                   THEN hEventSelection[b] + 1
                   ELSE hEventSelection[b]]_vars

\* one accepted collision and one that failed the posZ selection
C27_Witness ==
  /\ nCollisions = 2 /\ nAccepted = 1
  /\ hEventSelection[0] = 2 /\ hEventSelection[4] = 2
  /\ hEventSelection[5] = 1 /\ hEventSelection[18] = 1

\* ------------------------------------------------------------------------
\* rows of the batch without MC core
withoutCore == { i \in 1..Len(fullV0s) : ~fullV0s[i].has_v0MCCore }

\* C28: in processMonteCarlo a candidate without MC core is skipped by the
\* classification loop (no selection is evaluated on it), keeps both mask
\* bits false, is therefore not counted in nK0Shorts or nGammas, and is in
\* neither position of a pair handed to analyseV0PairCandidate.
C28_CandidatesWithoutMCCoreAreSkipped ==
  /\ \A i \in withoutCore :
       /\ ~selK0ShortIndices[i] /\ ~selGammaIndices[i]
       /\ \A c \in callSet : c[3] # globalIndexOfRow(i)
       /\ \A pair \in emitted :
            pair[1] # globalIndexOfRow(i) /\ pair[2] # globalIndexOfRow(i)
  /\ countTrue(selK0ShortIndices) <= Len(fullV0s) - Cardinality(withoutCore)
  /\ countTrue(selGammaIndices) <= Len(fullV0s) - Cardinality(withoutCore)

\* a batch whose candidates with MC core made a pair, next to a candidate
\* without MC core that passes both cut sets
C28_Witness ==
  /\ pc = "done" /\ emitted # {}
  /\ \E i \in withoutCore :
       /\ isV0Selected(fullV0s[i], collision, FALSE, cfg)
       /\ isV0Selected(fullV0s[i], collision, TRUE, cfg)

\* ------------------------------------------------------------------------
\* the index v0.globalIndex() - fullV0s.offset() of row i of the batch
\* (0-based, as std::vector takes it)
maskIndex(i) == localIndex(fullV0s[i], v0TableOffset) - 1

\* C29: for every candidate of the grouped table of a collision, the index
\* v0.globalIndex() - fullV0s.offset() at which analyseV0Candidate writes
\* the masks and buildV0V0Pairs reads them lies in [0, fullV0s.size()),
\* inside both masks, and two different candidates of the batch have
\* different indices.
C29_MaskIndexInBounds ==
  /\ \A i \in 1..Len(fullV0s) :
       /\ 0 <= maskIndex(i) /\ maskIndex(i) < Len(fullV0s)
       /\ maskIndex(i) < Len(selK0ShortIndices)
       /\ maskIndex(i) < Len(selGammaIndices)
  /\ \A i, j \in 1..Len(fullV0s) : i # j => maskIndex(i) # maskIndex(j)

\* a batch of three candidates of a table that starts at global index 5,
\* classified and paired
C29_Witness ==
  /\ pc = "done" /\ v0TableOffset = 5 /\ Len(fullV0s) = 3
  /\ fullV0s[3].globalIndex = 7
  /\ emitted # {}

\* ------------------------------------------------------------------------
\* rows of the table just processed that satisfy a condition on the row
rowsWith(table, Cond(_)) == Cardinality({ i \in 1..Len(table) : Cond(table[i]) })

isStandard(v0) == v0.v0Type = 1
isStandardGlobal(v0) ==
  v0.v0Type = 1 /\ v0.posTrack.hasITS /\ v0.negTrack.hasITS
isStandardNonITS(v0) ==
  v0.v0Type = 1 /\ ~(v0.posTrack.hasITS /\ v0.negTrack.hasITS)
isAny(v0) == TRUE

\* C30: in hV0s of readv0s, All >= Standard V0s and Global tracks + At
\* least 1 non-ITS track = Standard V0s; every processed V0 is counted once
\* under All, a V0 of type 1 also once under Standard V0s and once under
\* Global tracks when both daughters have the ITS and under At least 1
\* non-ITS track otherwise; a V0 of another type is counted under All only.
C30_ReadV0sCounters ==
  /\ [](/\ hV0s[BinAll] >= hV0s[BinStandardV0s]
        /\ hV0s[BinGlobalTracks] + hV0s[BinNonITSTrack] = hV0s[BinStandardV0s])
  /\ [][lastReadV0s'.process # "none" =>
          LET table == lastReadV0s'.table
          IN /\ hV0s'[BinAll] = hV0s[BinAll] + rowsWith(table, isAny)
             /\ hV0s'[BinStandardV0s] =
                  hV0s[BinStandardV0s] + rowsWith(table, isStandard)
             /\ hV0s'[BinGlobalTracks] =
                  hV0s[BinGlobalTracks] + rowsWith(table, isStandardGlobal)
             /\ hV0s'[BinNonITSTrack] =
                  hV0s[BinNonITSTrack] + rowsWith(table, isStandardNonITS)]_vars

\* after some tables: V0s of other types, standard V0s of both kinds, the
\* last table holding a standard V0 with one daughter without ITS
C30_Witness ==
  /\ hV0s[BinAll] > hV0s[BinStandardV0s]
  /\ hV0s[BinGlobalTracks] >= 1 /\ hV0s[BinNonITSTrack] >= 2
  /\ lastReadV0s.process = "processDerived"
  /\ \E i \in 1..Len(lastReadV0s.table) :
       LET v0 == lastReadV0s.table[i]
       IN v0.v0Type = 1 /\ v0.posTrack.hasITS /\ ~v0.negTrack.hasITS

=============================================================================
